---------------------------- MODULE Spec2Model ----------------------------
(***************************************************************************)
(* FreeFocus / EyeMotion control channel.                                  *)
(*                                                                         *)
(* The module models                                                       *)
(*   - the framing codec (encode_object / decode_object) of src/cli.py and *)
(*     src/ipc/clientserver.py, byte by byte;                              *)
(*   - one process running esper's tick loop, in one of three shapes:      *)
(*       "cli"    the daemon of src/main.py with the processors of         *)
(*                src/cli.py (Accept, Parse, FlushResponses);              *)
(*       "front"  the front-end of src/ipc/clientserver.py                 *)
(*                (Select, Read, Flush, SendCommand, GetResponse, Listen); *)
(*       "engine" the daemon of src/ipc/engine.py                          *)
(*                (Select, Read, Flush, Parse, Connect, Respond).          *)
(*     The peer process and the transport are the environment.             *)
(*                                                                         *)
(* Bytes are integers 0..255; a str is the sequence of its ASCII codes.    *)
(***************************************************************************)
EXTENDS Integers, Sequences, FiniteSets, TLC

VARIABLES
    \* ---- codec harness (CodecSpec) ----
    cphase,     \* "input" | "encoded" | "decoded" | "off"
    cmsgs,      \* the messages handed to encode_object, in order
    cbuf,       \* the byte buffer handed to decode_object
    cprev,      \* the buffer as it was before the last decode_object call
    cres,       \* what the decode_object calls returned so far, in order
    cexc,       \* the exception the last decode_object call raised, or "none"
    ccut,       \* TRUE when the buffer was cut short before decoding
    \* ---- the Parser registry (RegistrySpec, Spec) ----
    registry,   \* the Parser entities, in registration order
    dispatched, \* RegistrySpec: the last scan of the registry, if any
    \* ---- one process and its tick loop (Spec) ----
    variant,    \* "cli" | "front" | "engine" ("off" in CodecSpec)
    pc,         \* the step of esper.process() to run next, "crashed" or "exited"
    exc,        \* the exception that left the tick loop, or "none"
    listeners,  \* the Listener entities, in creation order
    pendings,   \* the PendingConnection entities, in creation order
    conns,      \* the Connection entities, in creation order
    ents,       \* the Command and Response entities, in creation order
    recordings, \* the number of Recording entities
    log,        \* what the core handed to its collaborators, in order
    acceptTick, \* an accept happened in the current tick
    zeroRead,   \* "now": a zero-length read in this tick; "next": in the last one
    npeer,      \* connection attempts made by the peer so far
    nframes,    \* frames sent by the peer so far
    ninputs,    \* lines typed by the user so far
    nshort      \* short recv and send calls so far

codecVars == <<cphase, cmsgs, cbuf, cprev, cres, cexc, ccut>>

procVars ==
    <<variant, pc, exc, listeners, pendings, conns, ents, recordings, log,
      acceptTick, zeroRead, npeer, nframes, ninputs, nshort>>

regVars == <<registry, dispatched>>

vars == <<codecVars, regVars, procVars>>

(***************************************************************************)
(* Bounds of the model.                                                    *)
(***************************************************************************)
\* longest str drawn for a name, an argument or a message in CodecSpec
MaxStrLen == 1
\* most arguments of a Command drawn in CodecSpec
MaxArgs == 1
\* most bytes the transport moves in a partial recv or a partial send
MaxChunk == 4
\* most connection attempts of the peer
MaxConnects == 3
\* most frames the peer sends
MaxFrames == 2
\* most lines the user types into the front-end
MaxInputs == 2

\* recv and send calls that transfer less than what is there to transfer
MaxShort == 1

\* most Parsers registered in RegistrySpec
MaxParsers == 3

\* most Command entities pending when Parse.process runs in ParseSpec
MaxPending == 3
\* length of the long message drawn in CodecSpec, whose frame needs more than
\* one byte of its length prefix
LongLen == 300
\* longest line drawn for the user's input in ClientSpec
MaxLineLen == 3

(***************************************************************************)
(* Messages.                                                               *)
(***************************************************************************)
\* the element of a one-element set; {F(x) : x \in {e}} computes e once,
\* however often F reads x
Only(S) == CHOOSE x \in S : TRUE

Command(name, arguments) ==
    [type |-> "Command", name |-> name, arguments |-> arguments]

Response(succeeded, message) ==
    [type |-> "Response", succeeded |-> succeeded, message |-> message]

\* Python's None, as a value that compares with messages
None == [type |-> "None"]

(***************************************************************************)
(* msgspec.json, on the two tagged structs.  The encoder writes the tag    *)
(* first, the fields in declaration order and no white space; the decoder  *)
(* is modelled on that canonical form (it rejects everything else, and any *)
(* trailing byte that is not JSON white space).                            *)
(***************************************************************************)
\* '{"type":"Command","name":'
LIT_CMD_HEAD ==
    <<123, 34, 116, 121, 112, 101, 34, 58, 34, 67, 111, 109, 109, 97, 110, 100, 34, 44, 34,
      110, 97, 109, 101, 34, 58>>
\* ',"arguments":['
LIT_CMD_ARGS ==
    <<44, 34, 97, 114, 103, 117, 109, 101, 110, 116, 115, 34, 58, 91>>
\* '{"type":"Response","succeeded":'
LIT_RSP_HEAD ==
    <<123, 34, 116, 121, 112, 101, 34, 58, 34, 82, 101, 115, 112, 111, 110, 115, 101, 34, 44,
      34, 115, 117, 99, 99, 101, 101, 100, 101, 100, 34, 58>>
\* ',"message":'
LIT_RSP_MSG ==
    <<44, 34, 109, 101, 115, 115, 97, 103, 101, 34, 58>>
\* 'true'
LIT_TRUE ==
    <<116, 114, 117, 101>>
\* 'false'
LIT_FALSE ==
    <<102, 97, 108, 115, 101>>

\* '0123456789abcdef'
HexDigits == <<48, 49, 50, 51, 52, 53, 54, 55, 56, 57, 97, 98, 99, 100, 101, 102>>

\* the two-byte escapes: the character -> the letter after the backslash
ShortEscape ==
    (34 :> 34) @@ (92 :> 92) @@ (8 :> 98) @@ (12 :> 102) @@ (10 :> 110)
        @@ (13 :> 114) @@ (9 :> 116)

\* the decoder also reads "\/"
ShortUnescape ==
    (34 :> 34) @@ (92 :> 92) @@ (47 :> 47) @@ (98 :> 8) @@ (102 :> 12)
        @@ (110 :> 10) @@ (114 :> 13) @@ (116 :> 9)

\* one character of a str, as the encoder writes it inside the quotes
EscapeByte(c) ==
    IF c \in DOMAIN ShortEscape THEN <<92, ShortEscape[c]>>
    ELSE IF c < 32
         THEN <<92, 117, 48, 48, HexDigits[(c \div 16) + 1], HexDigits[(c % 16) + 1]>>
         ELSE <<c>>

\* the characters of a str, escaped one by one (the recursion halves the
\* str, so that its depth stays small on long messages)
RECURSIVE EscapeBody(_)
EscapeBody(s) ==
    IF s = <<>> THEN <<>>
    ELSE IF Len(s) = 1 THEN EscapeByte(s[1])
    ELSE Only({EscapeBody(front) \o EscapeBody(back) :
                  front \in {SubSeq(s, 1, Len(s) \div 2)},
                  back \in {SubSeq(s, (Len(s) \div 2) + 1, Len(s))}})

JsonString(s) == <<34>> \o EscapeBody(s) \o <<34>>

RECURSIVE JsonStringList(_)
JsonStringList(l) ==
    IF l = <<>> THEN <<>>
    ELSE IF Len(l) = 1 THEN JsonString(l[1])
    ELSE JsonString(l[1]) \o <<44>> \o JsonStringList(Tail(l))

\* msgspec.json.encode(object)
JsonEncode(m) ==
    IF m.type = "Command"
    THEN LIT_CMD_HEAD \o JsonString(m.name) \o LIT_CMD_ARGS
            \o JsonStringList(m.arguments) \o <<93, 125>>
    ELSE LIT_RSP_HEAD \o (IF m.succeeded THEN LIT_TRUE ELSE LIT_FALSE)
            \o LIT_RSP_MSG \o JsonString(m.message) \o <<125>>

HasAt(b, i, lit) ==
    /\ i + Len(lit) - 1 <= Len(b)
    /\ SubSeq(b, i, i + Len(lit) - 1) = lit

HexValue(c) ==
    IF c \in 48..57 THEN c - 48
    ELSE IF c \in 97..102 THEN c - 87
    ELSE IF c \in 65..70 THEN c - 55
    ELSE -1

\* the number of backslashes that end just before index p, from lo on
RECURSIVE BackslashRun(_, _, _)
BackslashRun(b, lo, p) ==
    IF p < lo \/ b[p] # 92 THEN 0 ELSE 1 + BackslashRun(b, lo, p - 1)

\* index p starts an escape of the string body that begins at lo
EscapeStart(b, lo, p) == b[p] = 92 /\ BackslashRun(b, lo, p - 1) % 2 = 0

\* the escape that starts at p is well formed
EscapeOk(b, hi, p) ==
    /\ p + 1 <= hi
    /\ \/ b[p + 1] \in DOMAIN ShortUnescape
       \/ /\ b[p + 1] = 117
          /\ p + 5 <= hi
          /\ b[p + 2] = 48 /\ b[p + 3] = 48
          /\ HexValue(b[p + 4]) \in 0..7 /\ HexValue(b[p + 5]) >= 0

\* index p lies inside an escape that starts before it
InEscape(b, lo, p) ==
    \/ p - 1 >= lo /\ EscapeStart(b, lo, p - 1)
    \/ \E q \in {p - 5, p - 4, p - 3, p - 2} :
          q >= lo /\ EscapeStart(b, lo, q) /\ b[q + 1] = 117

\* the characters the indices from..to of a string body stand for
RECURSIVE UnescapeRange(_, _, _, _)
UnescapeRange(b, lo, from, to) ==
    IF from > to THEN <<>>
    ELSE IF from = to
         THEN IF InEscape(b, lo, from) THEN <<>>
              ELSE IF ~EscapeStart(b, lo, from) THEN <<b[from]>>
              ELSE IF b[from + 1] = 117
                   THEN <<16 * HexValue(b[from + 4]) + HexValue(b[from + 5])>>
                   ELSE <<ShortUnescape[b[from + 1]]>>
    ELSE Only({UnescapeRange(b, lo, from, h) \o UnescapeRange(b, lo, h + 1, to) :
                  h \in {(from + to) \div 2}})

\* the characters of a JSON string from index i (after the opening quote) to
\* the closing quote, the first quote no backslash escapes: [ok, val, next]
\* the quotes from index i on that no backslash escapes
ClosingQuotes(b, i) ==
    {j \in i..Len(b) : b[j] = 34 /\ BackslashRun(b, i, j - 1) % 2 = 0}

\* the string body i..j-1, closed by the quote at j
ParseStringUpTo(b, i, j) ==
    IF \A p \in i..(j - 1) :
           /\ b[p] >= 32
           /\ EscapeStart(b, i, p) => EscapeOk(b, j - 1, p)
    THEN [ok |-> TRUE, val |-> UnescapeRange(b, i, i, j - 1), next |-> j + 1]
    ELSE [ok |-> FALSE]

FirstOf(quotes) == CHOOSE q \in quotes : \A r \in quotes : q <= r

ParseStringBodyIn(b, i, quotes) ==
    IF quotes = {} THEN [ok |-> FALSE]
    ELSE Only({ParseStringUpTo(b, i, j) : j \in {FirstOf(quotes)}})

ParseStringBody(b, i) ==
    Only({ParseStringBodyIn(b, i, quotes) : quotes \in {ClosingQuotes(b, i)}})

ParseString(b, i) ==
    IF i <= Len(b) /\ b[i] = 34 THEN ParseStringBody(b, i + 1)
    ELSE [ok |-> FALSE]

\* the elements of a JSON array of strings from index i (after the "["):
\* [ok, val, next]
RECURSIVE ParseStringList(_, _, _)
\* the array after its element s
ParseStringListAfter(b, acc, s) ==
    IF ~s.ok \/ s.next > Len(b) THEN [ok |-> FALSE]
    ELSE IF b[s.next] = 93
         THEN [ok |-> TRUE, val |-> Append(acc, s.val), next |-> s.next + 1]
    ELSE IF b[s.next] = 44
         THEN ParseStringList(b, s.next + 1, Append(acc, s.val))
    ELSE [ok |-> FALSE]

ParseStringList(b, i, acc) ==
    IF i > Len(b) THEN [ok |-> FALSE]
    ELSE IF b[i] = 93 /\ acc = <<>> THEN [ok |-> TRUE, val |-> acc, next |-> i + 1]
    ELSE Only({ParseStringListAfter(b, acc, s) : s \in {ParseString(b, i)}})

\* JSON white space: space, tab, line feed, carriage return
JsonWhitespace == {32, 9, 10, 13}

\* nothing but white space from index i on
OnlyWhitespaceFrom(b, i) == \A j \in i..Len(b) : b[j] \in JsonWhitespace

\* the document ends with "}" at index i
ClosesAt(b, i) == i <= Len(b) /\ b[i] = 125 /\ OnlyWhitespaceFrom(b, i + 1)

\* a decoder that loses the arguments of a Command
CommandWith_no_arguments(b, n, a) ==
    IF a.ok /\ ClosesAt(b, a.next) THEN [ok |-> TRUE, msg |-> Command(n.val, <<>>)]
    ELSE [ok |-> FALSE]

\* the Command of name n.val, with the arguments a
CommandWith(b, n, a) ==
    IF a.ok /\ ClosesAt(b, a.next) THEN [ok |-> TRUE, msg |-> Command(n.val, a.val)]
    ELSE [ok |-> FALSE]

\* the Command after its name n
CommandAfterName(b, n) ==
    IF ~n.ok \/ ~HasAt(b, n.next, LIT_CMD_ARGS) THEN [ok |-> FALSE]
    ELSE Only({CommandWith(b, n, a) :
                  a \in {ParseStringList(b, n.next + Len(LIT_CMD_ARGS), <<>>)}})

JsonDecodeCommand(b) ==
    Only({CommandAfterName(b, n) : n \in {ParseString(b, Len(LIT_CMD_HEAD) + 1)}})

\* the Response of flag t, with the message s
ResponseWith(b, t, s) ==
    IF s.ok /\ ClosesAt(b, s.next) THEN [ok |-> TRUE, msg |-> Response(t, s.val)]
    ELSE [ok |-> FALSE]

\* the Response after its flag, which ends before index j
ResponseAfterFlag(b, t, j) ==
    IF ~HasAt(b, j, LIT_RSP_MSG) THEN [ok |-> FALSE]
    ELSE Only({ResponseWith(b, t, s) : s \in {ParseString(b, j + Len(LIT_RSP_MSG))}})

JsonDecodeResponse(b) ==
    IF HasAt(b, Len(LIT_RSP_HEAD) + 1, LIT_TRUE)
    THEN ResponseAfterFlag(b, TRUE, Len(LIT_RSP_HEAD) + 1 + Len(LIT_TRUE))
    ELSE IF HasAt(b, Len(LIT_RSP_HEAD) + 1, LIT_FALSE)
    THEN ResponseAfterFlag(b, FALSE, Len(LIT_RSP_HEAD) + 1 + Len(LIT_FALSE))
    ELSE [ok |-> FALSE]

\* msgspec.json.Decoder(Union[Command, Response]).decode(b): the whole of b
\* must be one document
JsonDecode(b) ==
    IF HasAt(b, 1, LIT_CMD_HEAD) THEN JsonDecodeCommand(b)
    ELSE IF HasAt(b, 1, LIT_RSP_HEAD) THEN JsonDecodeResponse(b)
    ELSE [ok |-> FALSE]

(***************************************************************************)
(* Framing.                                                                *)
(***************************************************************************)
LENGTH_SIZE == 4

\* the four bytes least significant first, as struct.pack('<I', n) gives them
PackLength_little_endian(n) ==
    <<n % 256, (n \div 256) % 256, (n \div 65536) % 256, (n \div 16777216) % 256>>

\* struct.pack('!I', n)
PackLength(n) ==
    <<(n \div 16777216) % 256, (n \div 65536) % 256, (n \div 256) % 256, n % 256>>

\* struct.unpack('!I', b)[0]
UnpackLength(b) == ((b[1] * 256 + b[2]) * 256 + b[3]) * 256 + b[4]

encode_object(object) ==
    Only({PackLength(Len(encoded_object)) \o encoded_object :
             encoded_object \in {JsonEncode(object)}})

\* (length, rest), or None (the function falls off its end) on fewer than
\* LENGTH_SIZE bytes
split_encoded_length_from_object(encoded_object_bytes) ==
    IF Len(encoded_object_bytes) >= LENGTH_SIZE
    THEN [none |-> FALSE,
          length |-> UnpackLength(SubSeq(encoded_object_bytes, 1, LENGTH_SIZE)),
          rest |-> SubSeq(encoded_object_bytes, LENGTH_SIZE + 1,
                          Len(encoded_object_bytes))]
    ELSE [none |-> TRUE]

\* [exc, msg, rest]: exc is "none" when the call returns (msg, rest).
\* Unpacking the None of the split into two names raises TypeError; the
\* decoder is handed all of to_parse, not its first object_length bytes.
\* a return statement that hands back all of to_parse as the remainder
decode_return_whole(object_length, to_parse, d) ==
    IF d.ok THEN [exc |-> "none", msg |-> d.msg, rest |-> to_parse]
    ELSE [exc |-> "DecodeError"]

\* the return statement after decoder.decode(to_parse) gave d
decode_return(object_length, to_parse, d) ==
    IF d.ok
    THEN [exc |-> "none", msg |-> d.msg,
          rest |-> SubSeq(to_parse, object_length + 1, Len(to_parse))]
    ELSE [exc |-> "DecodeError"]

\* decode_object from the unpacking of the split s on
decode_split(encoded_object_bytes, s) ==
    IF s.none THEN [exc |-> "TypeError"]
    ELSE IF Len(s.rest) >= s.length
         THEN Only({decode_return(s.length, s.rest, d) : d \in {JsonDecode(s.rest)}})
         ELSE [exc |-> "none", msg |-> None, rest |-> encoded_object_bytes]

decode_object(encoded_object_bytes) ==
    Only({decode_split(encoded_object_bytes, s) :
             s \in {split_encoded_length_from_object(encoded_object_bytes)}})

(***************************************************************************)
(* The strings of the program.                                             *)
(***************************************************************************)
\* 'show'
KEY_SHOW ==
    <<115, 104, 111, 119>>
\* 'exit'
KEY_EXIT ==
    <<101, 120, 105, 116>>
\* 'record'
KEY_RECORD ==
    <<114, 101, 99, 111, 114, 100>>
\* 'help'
KEY_HELP ==
    <<104, 101, 108, 112>>
\* 'display an ocular test'
DESC_SHOW ==
    <<100, 105, 115, 112, 108, 97, 121, 32, 97, 110, 32, 111, 99, 117, 108, 97, 114, 32, 116,
      101, 115, 116>>
\* 'stop the EyeMotion service'
DESC_EXIT_CLI ==
    <<115, 116, 111, 112, 32, 116, 104, 101, 32, 69, 121, 101, 77, 111, 116, 105, 111, 110,
      32, 115, 101, 114, 118, 105, 99, 101>>
\* 'stop the FreeFocus service'
DESC_EXIT_IPC ==
    <<115, 116, 111, 112, 32, 116, 104, 101, 32, 70, 114, 101, 101, 70, 111, 99, 117, 115, 32,
      115, 101, 114, 118, 105, 99, 101>>
\* 'analyze eye movements for a given duration'
DESC_RECORD ==
    <<97, 110, 97, 108, 121, 122, 101, 32, 101, 121, 101, 32, 109, 111, 118, 101, 109, 101,
      110, 116, 115, 32, 102, 111, 114, 32, 97, 32, 103, 105, 118, 101, 110, 32, 100, 117,
      114, 97, 116, 105, 111, 110>>
\* 'Supported commands:'
HELP_HEAD ==
    <<83, 117, 112, 112, 111, 114, 116, 101, 100, 32, 99, 111, 109, 109, 97, 110, 100, 115, 58>>
\* '\n\t=> '
HELP_ITEM ==
    <<10, 9, 61, 62, 32>>
\* ': '
HELP_SEP ==
    <<58, 32>>
\* '\n\t=> help: show this message'
HELP_TAIL ==
    <<10, 9, 61, 62, 32, 104, 101, 108, 112, 58, 32, 115, 104, 111, 119, 32, 116, 104, 105,
      115, 32, 109, 101, 115, 115, 97, 103, 101>>
\* 'okn'
ARG_OKN ==
    <<111, 107, 110>>
\* 'idle'
ARG_IDLE ==
    <<105, 100, 108, 101>>
\* 'saccades'
ARG_SACCADES ==
    <<115, 97, 99, 99, 97, 100, 101, 115>>
\* '1s'
ARG_1S ==
    <<49, 115>>
\* "usage: show ['okn', 'idle', 'saccades']"
SHOW_USAGE ==
    <<117, 115, 97, 103, 101, 58, 32, 115, 104, 111, 119, 32, 91, 39, 111, 107, 110, 39, 44,
      32, 39, 105, 100, 108, 101, 39, 44, 32, 39, 115, 97, 99, 99, 97, 100, 101, 115, 39, 93>>
\* 'usage: record duration[unit]. supported units are s(econds, e.g. 10s), m(inutes, e.g. 1m)'
RECORD_USAGE ==
    <<117, 115, 97, 103, 101, 58, 32, 114, 101, 99, 111, 114, 100, 32, 100, 117, 114, 97, 116,
      105, 111, 110, 91, 117, 110, 105, 116, 93, 46, 32, 115, 117, 112, 112, 111, 114, 116,
      101, 100, 32, 117, 110, 105, 116, 115, 32, 97, 114, 101, 32, 115, 40, 101, 99, 111, 110,
      100, 115, 44, 32, 101, 46, 103, 46, 32, 49, 48, 115, 41, 44, 32, 109, 40, 105, 110, 117,
      116, 101, 115, 44, 32, 101, 46, 103, 46, 32, 49, 109, 41>>
\* 'Recording available at ' (the directory's name follows; the model leaves
\* it empty)
RECORDING_MESSAGE ==
    <<82, 101, 99, 111, 114, 100, 105, 110, 103, 32, 97, 118, 97, 105, 108, 97, 98, 108, 101,
      32, 97, 116, 32>>
\* 'frobnicate', a name no Parser has
NAME_FROBNICATE ==
    <<102, 114, 111, 98, 110, 105, 99, 97, 116, 101>>

(***************************************************************************)
(* The Parser registry and the callbacks registered in it.                 *)
(***************************************************************************)
Parser(key, description, parse) ==
    [key |-> key, description |-> description, parse |-> parse]

\* the add_parser calls, in the order the daemon makes them
Parsers(v) ==
    <<Parser(KEY_SHOW, DESC_SHOW, "parse_show"),
      Parser(KEY_EXIT, IF v = "cli" THEN DESC_EXIT_CLI ELSE DESC_EXIT_IPC, "parse_exit"),
      Parser(KEY_RECORD, DESC_RECORD, "parse_record")>>

\* what a callback does: the exception it raises ("none": it returns), the
\* Responses it emits before that, the UI actions it dispatches and the
\* recordings it starts
Effect(e, responses, ui, record) ==
    [exc |-> e, responses |-> responses, ui |-> ui, record |-> record]

\* parse_show looking at the first argument only
parse_show_first_argument(args) ==
    IF args = <<>> \/ args[1] \notin {ARG_OKN, ARG_IDLE, ARG_SACCADES}
    THEN Effect("none", <<Response(FALSE, SHOW_USAGE)>>, <<>>, 0)
    ELSE Effect("none", <<Response(TRUE, <<>>)>>, <<args[1]>>, 0)

parse_show(args) ==
    IF Len(args) # 1 \/ args[1] \notin {ARG_OKN, ARG_IDLE, ARG_SACCADES}
    THEN Effect("none", <<Response(FALSE, SHOW_USAGE)>>, <<>>, 0)
    ELSE Effect("none", <<Response(TRUE, <<>>)>>, <<args[1]>>, 0)

parse_exit(args) == Effect("SystemExit", <<>>, <<>>, 0)

\* int(s) on a str of decimal digits (signs, underscores and blanks, which
\* int() also reads, do not occur in the model's inputs)
IsDecimal(s) == s # <<>> /\ \A i \in DOMAIN s : s[i] \in 48..57

\* args[0] of an empty list raises IndexError, which the except clause does
\* not name; after the usage Response the handler goes on to read
\* recording_duration, which was never bound: UnboundLocalError
parse_record(args) ==
    IF args = <<>> THEN Effect("IndexError", <<>>, <<>>, 0)
    ELSE LET seconds == args[1] IN
         IF /\ seconds # <<>>
            /\ IsDecimal(SubSeq(seconds, 1, Len(seconds) - 1))
            /\ seconds[Len(seconds)] \in {115, 109}
         THEN Effect("none", <<>>, <<>>, 1)
         ELSE Effect("UnboundLocalError", <<Response(FALSE, RECORD_USAGE)>>, <<>>, 0)

Callback(parse, args) ==
    CASE parse = "parse_show" -> parse_show(args)
      [] parse = "parse_exit" -> parse_exit(args)
      [] parse = "parse_record" -> parse_record(args)

\* a scan of the registry that finds no Parser
NoMatch(ps, name) == 0

\* a scan that takes the Parser registered last under the name
LastMatch(ps, name) ==
    LET hits == {i \in DOMAIN ps : ps[i].key = name} IN
    IF hits = {} THEN 0 ELSE CHOOSE i \in hits : \A j \in hits : i >= j

\* the first Parser, in registration order, whose key is the name; 0: none
FirstMatch(ps, name) ==
    LET hits == {i \in DOMAIN ps : ps[i].key = name} IN
    IF hits = {} THEN 0 ELSE CHOOSE i \in hits : \A j \in hits : i <= j

RECURSIVE HelpItems(_)
HelpItems(ps) ==
    IF ps = <<>> THEN <<>>
    ELSE HELP_ITEM \o Head(ps).key \o HELP_SEP \o Head(ps).description
            \o HelpItems(Tail(ps))

\* a help Response that always reports failure
HelpResponse_failing(ps, return_success) ==
    Response(FALSE, HELP_HEAD \o HelpItems(ps) \o HELP_TAIL)

\* a help Response that always reports success
HelpResponse_succeeding(ps, return_success) ==
    Response(TRUE, HELP_HEAD \o HelpItems(ps) \o HELP_TAIL)

\* the Response of _emit_help_response(return_success)
HelpResponse(ps, return_success) ==
    Response(return_success, HELP_HEAD \o HelpItems(ps) \o HELP_TAIL)

\* the scan of the registry for one command: the matching callback's
\* effect, or the help listing
Dispatch(ps, command) ==
    LET i == FirstMatch(ps, command.name) IN
    IF i > 0 THEN [matched |-> TRUE, key |-> ps[i].key, args |-> command.arguments,
                   calls |-> <<ps[i].parse>>,
                   eff |-> Callback(ps[i].parse, command.arguments)]
    ELSE [matched |-> FALSE, key |-> <<>>, args |-> <<>>, calls |-> <<>>,
          eff |-> Effect("none", <<HelpResponse(ps, command.name = KEY_HELP)>>, <<>>, 0)]

\* the log entries of one dispatch: the Command taken up, then the callback
\* invoked (the Parser's key and the arguments it was called with) or the
\* help listing emitted, then the UI actions dispatched and the Responses
\* emitted
DispatchLog(command, d) ==
    <<[ev |-> "command", key |-> command.name, args |-> command.arguments]>>
    \o (IF d.matched
        THEN <<[ev |-> "callback", key |-> d.key, args |-> d.args]>>
        ELSE <<[ev |-> "help", key |-> command.name, args |-> command.arguments]>>)
    \o [i \in DOMAIN d.eff.ui |-> [ev |-> "ui", key |-> d.eff.ui[i], args |-> <<>>]]
    \o [i \in DOMAIN d.eff.responses |->
           [ev |-> "response", key |-> d.eff.responses[i].message,
            args |-> <<d.eff.responses[i].succeeded>>]]

\* where an exception that nothing catches leaves the process
Stopped(e) == IF e = "SystemExit" THEN "exited" ELSE "crashed"

(***************************************************************************)
(* CodecSpec: the codec applied to inputs drawn from bounded sets.         *)
(***************************************************************************)
\* 'a', '"', '\', line feed
Alphabet == {97, 34, 92, 10}

StrSet == UNION {[1..n -> Alphabet] : n \in 0..MaxStrLen}

ArgsSet == UNION {[1..n -> StrSet] : n \in 0..MaxArgs}

MsgSet ==
    {Command(n, a) : n \in StrSet, a \in ArgsSet}
        \cup {Response(s, t) : s \in BOOLEAN, t \in StrSet}

\* the two messages of the protocol's first exchange: "show okn" and its answer
SecondSet == {Command(<<115, 104, 111, 119>>, <<(<<111, 107, 110>>)>>), Response(TRUE, <<>>)}

\* a Response whose payload is longer than 255 bytes
LongMessage == Response(TRUE, [i \in 1..LongLen |-> 97])

RECURSIVE EncodeAll(_)
EncodeAll(ms) ==
    IF ms = <<>> THEN <<>> ELSE encode_object(Head(ms)) \o EncodeAll(Tail(ms))

CodecInit ==
    /\ cphase = "input"
    /\ cmsgs \in {<<m>> : m \in MsgSet \cup {LongMessage}}
                    \cup {<<m, n>> : m \in MsgSet, n \in SecondSet}
    /\ cbuf = <<>>
    /\ cprev = <<>>
    /\ cres = <<>>
    /\ cexc = "none"
    /\ ccut = FALSE
    /\ registry = <<>>
    /\ dispatched = <<>>
    /\ variant = "off"
    /\ pc = "off"
    /\ exc = "none"
    /\ listeners = <<>>
    /\ pendings = <<>>
    /\ conns = <<>>
    /\ ents = <<>>
    /\ recordings = 0
    /\ log = <<>>
    /\ acceptTick = FALSE
    /\ zeroRead = "no"
    /\ npeer = 0
    /\ nframes = 0
    /\ ninputs = 0
    /\ nshort = 0

\* the frames of cmsgs, concatenated into one buffer
CodecEncode ==
    /\ cphase = "input"
    /\ cphase' = "encoded"
    /\ cbuf' = EncodeAll(cmsgs)
    /\ UNCHANGED <<cmsgs, cprev, cres, cexc, ccut, procVars, regVars>>

\* only the first k bytes have arrived
CodecCut ==
    /\ cphase = "encoded"
    /\ ~ccut
    /\ \E k \in 0..(Len(cbuf) - 1) : cbuf' = SubSeq(cbuf, 1, k)
    /\ ccut' = TRUE
    /\ UNCHANGED <<cphase, cmsgs, cprev, cres, cexc, procVars, regVars>>

\* one call of decode_object on the buffer
CodecDecode ==
    /\ cphase \in {"encoded", "decoded"}
    /\ cexc = "none"
    /\ Len(cres) <= Len(cmsgs)
    /\ LET r == decode_object(cbuf) IN
         /\ cexc' = r.exc
         /\ cprev' = cbuf
         /\ IF r.exc = "none"
            THEN cres' = Append(cres, r.msg) /\ cbuf' = r.rest
            ELSE UNCHANGED <<cres, cbuf>>
    /\ cphase' = "decoded"
    /\ UNCHANGED <<cmsgs, ccut, procVars, regVars>>

CodecNext == CodecEncode \/ CodecCut \/ CodecDecode

CodecSpec == CodecInit /\ [][CodecNext]_vars

(***************************************************************************)
(* RegistrySpec: Parsers registered one by one, and the scan of the        *)
(* registry applied to a Command.                                          *)
(***************************************************************************)
\* the Parsers the daemons register, one registered as "help", and one
\* registered as "show" with another callback
ParserChoices ==
    {Parsers(v)[i] : v \in {"cli", "engine"}, i \in 1..3}
        \cup {Parser(KEY_HELP, DESC_SHOW, "parse_show"),
              Parser(KEY_SHOW, DESC_RECORD, "parse_record")}

RegCommands ==
    {Command(KEY_HELP, <<>>), Command(NAME_FROBNICATE, <<>>)}
        \* show with each element, with none, with 'x' and with two
        \cup {Command(KEY_SHOW, a) :
                  a \in {<<ARG_OKN>>, <<ARG_IDLE>>, <<ARG_SACCADES>>, <<>>, <<(<<120>>)>>,
                         <<ARG_OKN, ARG_IDLE>>}}
        \* record with '1s', '1m', with nothing, '1x', 'xs', 's', '' and
        \* with '1s' followed by 'x'
        \cup {Command(KEY_RECORD, a) :
                  a \in {<<ARG_1S>>, <<(<<49, 109>>)>>, <<>>, <<(<<49, 120>>)>>,
                         <<(<<120, 115>>)>>, <<(<<115>>)>>, <<(<<>>)>>,
                         <<ARG_1S, <<120>>>>}}

RegInit ==
    /\ cphase = "off"
    /\ cmsgs = <<>>
    /\ cbuf = <<>>
    /\ cprev = <<>>
    /\ cres = <<>>
    /\ cexc = "none"
    /\ ccut = FALSE
    /\ registry = <<>>
    /\ dispatched = <<>>
    /\ variant = "off"
    /\ pc = "off"
    /\ exc = "none"
    /\ listeners = <<>>
    /\ pendings = <<>>
    /\ conns = <<>>
    /\ ents = <<>>
    /\ recordings = 0
    /\ log = <<>>
    /\ acceptTick = FALSE
    /\ zeroRead = "no"
    /\ npeer = 0
    /\ nframes = 0
    /\ ninputs = 0
    /\ nshort = 0

\* add_parser(key, description, callback)
add_parser ==
    /\ Len(registry) < MaxParsers
    /\ \E p \in ParserChoices :
         registry' = Append(registry, Parser(p.key, p.description, p.parse))
    /\ UNCHANGED <<dispatched, codecVars, procVars>>

\* the scan of the registry for one Command
RegDispatch ==
    /\ \E command \in RegCommands :
         dispatched' = <<[ps |-> registry, command |-> command,
                          d |-> Dispatch(registry, command)]>>
    /\ UNCHANGED <<registry, codecVars, procVars>>

RegNext == add_parser \/ RegDispatch

RegistrySpec == RegInit /\ [][RegNext]_vars

(***************************************************************************)
(* The entities of esper's database.  delete_entity(ent) only marks the    *)
(* entity dead: it stays in the database, and get_component still lists    *)
(* it, until clear_dead_entities() runs at the start of the next           *)
(* esper.process().                                                        *)
(***************************************************************************)
Min(a, b) == IF a < b THEN a ELSE b

Take(s, k) == SubSeq(s, 1, k)

Drop(s, k) == SubSeq(s, k + 1, Len(s))

\* a Listener socket, bound and listening; backlog: the peer's connection
\* attempts waiting to be accepted
NewListener == [dead |-> FALSE, backlog |-> 0]

\* a PendingConnection socket; state: "inprogress", "connected" or "refused"
NewPending(state) == [dead |-> FALSE, state |-> state]

\* a Connection built on the buffers of an earlier one: the inbound buffer
\* holds the start of a frame and the outbound queue an unsent frame
NewConnection_on_old_buffers(err) ==
    [dead |-> FALSE, buf |-> <<0, 0>>, out |-> <<encode_object(Response(TRUE, <<>>))>>,
     rd |-> FALSE, wr |-> FALSE,
     wire |-> <<>>, closed |-> FALSE, err |-> err, canWrite |-> TRUE,
     hsent |-> 0, done |-> 0, tx |-> <<>>, enq |-> <<>>, sent |-> <<>>, got |-> <<>>,
     recvs |-> 0, sends |-> 0, polled |-> FALSE, out0 |-> <<>>]

\* a Connection.  buf: message_buffer; out: objects_to_send; rd, wr: the
\* Readable and Writeable components Select attaches.  The transport: wire
\* holds the bytes the peer has sent and recv has not returned yet, closed
\* says the peer has closed, err that the connect behind the socket failed,
\* canWrite that the send buffer has room.  hsent counts the bytes of the
\* head frame handed to the transport so far, done the frames sent whole.
\* tx holds every byte send has taken, enq every frame appended to
\* objects_to_send, in the order of the calls; sent holds what the peer has
\* sent on the connection, got the messages decode_object has returned from
\* it.  recvs and sends count the recv and send calls made on the socket
\* in the current tick, and polled tells that select was asked about it in
\* the current tick; out0 is the outbound queue as the tick found it.
NewConnection(err) ==
    [dead |-> FALSE, buf |-> <<>>, out |-> <<>>, rd |-> FALSE, wr |-> FALSE,
     wire |-> <<>>, closed |-> FALSE, err |-> err, canWrite |-> TRUE,
     hsent |-> 0, done |-> 0, tx |-> <<>>, enq |-> <<>>, sent |-> <<>>, got |-> <<>>,
     recvs |-> 0, sends |-> 0, polled |-> FALSE, out0 |-> <<>>]

\* a Command or a Response entity
Entity(msg) == [dead |-> FALSE, msg |-> msg, inbound |-> FALSE]

\* the entity Read.process creates for a message decoded from the Connection
Inbound(msg) == [dead |-> FALSE, msg |-> msg, inbound |-> TRUE]

MarkAllDead(seq) == [i \in DOMAIN seq |-> [seq[i] EXCEPT !.dead = TRUE]]

Live(seq) == {i \in DOMAIN seq : ~seq[i].dead}

\* clear_dead_entities(), on one component type
WithoutDead(seq) == SelectSeq(seq, LAMBDA e : ~e.dead)

\* the Connections as a tick begins: no call made on their sockets yet
BeginTick(cs) ==
    [i \in DOMAIN cs |->
        [cs[i] EXCEPT !.recvs = 0, !.sends = 0, !.polled = FALSE, !.out0 = cs[i].out]]

(***************************************************************************)
(* The transport, as select, recv and send show it.                        *)
(***************************************************************************)
RECV_SIZE == 16384

SockReadable(c) == c.wire # <<>> \/ c.closed \/ c.err

\* what recv(16384) may return on a readable socket: the number of bytes
\* (0: the peer has closed), or -1 for the OSError of a failed connect
\* a recv or a send of k of the n bytes there are counts as short
ShortCall(k, n) == IF 0 < k /\ k < n THEN nshort + 1 ELSE nshort

RecvSizes(c) ==
    IF c.wire # <<>>
    THEN LET n == Min(Len(c.wire), RECV_SIZE) IN
         {k \in 1..n : (k <= MaxChunk /\ nshort < MaxShort) \/ k = n}
    ELSE IF c.err THEN {-1} ELSE {0}

\* what send(to_send) may return on a writeable socket: all of it, a few
\* bytes when the send buffer fills up, or 0 once the peer has closed
SendSizes(c) ==
    LET n == Len(Head(c.out)) IN
    {n} \cup {k \in 1..(n - 1) : k <= MaxChunk /\ nshort < MaxShort}
        \cup (IF c.closed THEN {0} ELSE {})

(***************************************************************************)
(* src/cli.py: the daemon's endpoint.                                      *)
(***************************************************************************)
\* message_buffer += recv(...), the k bytes leaving the transport
Received(c, k) ==
    [c EXCEPT !.wire = Drop(@, k), !.buf = @ \o Take(c.wire, k), !.recvs = @ + 1]

\* the end of SocketReader.read, decode_object having given r
read_decoded(c1, r) ==
    IF r.exc # "none" THEN [exc |-> r.exc, conn |-> c1, msg |-> None]
    ELSE [exc |-> "none", msg |-> r.msg,
          conn |-> [c1 EXCEPT !.buf = r.rest,
                              !.got = IF r.msg # None THEN Append(@, r.msg) ELSE @]]

\* SocketReader.read(blocking=False) on a readable socket whose recv
\* returns k bytes: [exc, conn, msg]
SocketReader_read(c, k) ==
    IF k < 0 THEN [exc |-> "OSError", conn |-> [c EXCEPT !.recvs = @ + 1], msg |-> None]
    ELSE IF k = 0
    THEN [exc |-> "ConnectionError", conn |-> [c EXCEPT !.recvs = @ + 1], msg |-> None]
    ELSE Only({Only({read_decoded(c1, r) : r \in {decode_object(c1.buf)}}) :
                  c1 \in {Received(c, k)}})

\* SocketWriter.enqueue_object(obj)
enqueue_object(c, obj) ==
    Only({[c EXCEPT !.out = Append(@, encoded_object), !.enq = @ \o encoded_object] :
             encoded_object \in {encode_object(obj)}})

\* one turn of the loop of SocketWriter.send_enqueued_objects on a writeable
\* socket with a frame queued, send returning k: [exc, conn]
send_enqueued_objects(c, k) ==
    LET to_send == Head(c.out) IN
    IF k = 0 THEN [exc |-> "ConnectionError", conn |-> [c EXCEPT !.sends = @ + 1]]
    ELSE IF k < Len(to_send)
         THEN [exc |-> "none",
               conn |-> [c EXCEPT !.out[1] = Drop(to_send, k), !.canWrite = FALSE,
                                  !.hsent = @ + k, !.tx = @ \o Take(to_send, k),
                                  !.sends = @ + 1]]
         ELSE [exc |-> "none",
               conn |-> [c EXCEPT !.out = Tail(@), !.hsent = 0, !.done = @ + 1,
                                  !.tx = @ \o to_send, !.sends = @ + 1]]

\* reset_connection(): every Connection is deleted (marked dead) and one
\* more Listener is bound (SO_REUSEADDR and SO_REUSEPORT let the bind pass
\* while another Listener holds the address)
reset_connection(ls, cs) == [ls |-> Append(ls, NewListener), cs |-> MarkAllDead(cs)]

\* respond(success, message): CurrentConnection is the first Connection the
\* database lists, dead or not; with none the Response is dropped
Cli_respond(cs, response) ==
    IF cs = <<>> THEN cs ELSE [cs EXCEPT ![1] = enqueue_object(@, response)]

RECURSIVE Cli_respondAll(_, _)
Cli_respondAll(cs, responses) ==
    IF responses = <<>> THEN cs
    ELSE Cli_respondAll(Cli_respond(cs, Head(responses)), Tail(responses))

\* Accept.process from the i-th Listener on: one accept per readable
\* Listener, and the loop returns at the first that is not readable
RECURSIVE AcceptLoop(_, _, _)
AcceptLoop(ls, cs, i) ==
    IF i > Len(ls) \/ ls[i].backlog = 0 THEN [ls |-> ls, cs |-> cs]
    ELSE AcceptLoop([ls EXCEPT ![i].dead = TRUE, ![i].backlog = @ - 1],
                    Append(cs, NewConnection(FALSE)), i + 1)

(***************************************************************************)
(* The tick loop: esper.process() clears the dead entities and then runs   *)
(* the processors in the order they were added.                            *)
(***************************************************************************)
Order(v) ==
    CASE v = "cli" -> <<"clear", "Accept", "Parse", "FlushResponses", "Recorder">>
      [] v = "front" -> <<"clear", "Select", "Read", "Flush", "SendCommand",
                          "GetResponse", "Listen">>
      [] v = "engine" -> <<"clear", "Select", "Read", "Flush", "Parse", "Connect",
                           "Respond", "Recorder">>

\* the step after step p
After(v, p) ==
    LET o == Order(v)
        i == CHOOSE j \in DOMAIN o : o[j] = p
    IN  IF i = Len(o) THEN o[1] ELSE o[i + 1]

\* the environment is observed between two esper.process() calls: a tick's
\* processors see the sockets as the tick's start left them
BetweenTicks == pc = "clear"

Init ==
    /\ cphase = "off"
    /\ cmsgs = <<>>
    /\ cbuf = <<>>
    /\ cprev = <<>>
    /\ cres = <<>>
    /\ cexc = "none"
    /\ ccut = FALSE
    /\ variant \in {"cli", "front", "engine"}
    \* the add_parser calls are made as the daemon's modules are imported
    /\ registry = (IF variant = "front" THEN <<>> ELSE Parsers(variant))
    /\ dispatched = <<>>
    /\ pc = "clear"
    /\ exc = "none"
    \* src/cli.py dispatches CLI_RESET_CONNECTION as it is imported
    /\ listeners = IF variant = "cli" THEN reset_connection(<<>>, <<>>).ls ELSE <<>>
    /\ pendings = <<>>
    /\ conns = <<>>
    /\ ents = <<>>
    /\ recordings = 0
    /\ log = <<>>
    /\ acceptTick = FALSE
    /\ zeroRead = "no"
    /\ npeer = 0
    /\ nframes = 0
    /\ ninputs = 0
    /\ nshort = 0

\* clear_dead_entities(), the first statement of esper.process()
ClearDeadEntities ==
    /\ pc = "clear"
    /\ listeners' = WithoutDead(listeners)
    /\ pendings' = WithoutDead(pendings)
    /\ conns' = BeginTick(WithoutDead(conns))
    /\ ents' = WithoutDead(ents)
    /\ acceptTick' = FALSE
    /\ zeroRead' = (IF zeroRead = "now" THEN "next" ELSE "no")
    /\ pc' = After(variant, "clear")
    /\ UNCHANGED <<codecVars, regVars, variant, exc, recordings, log, npeer, nframes, ninputs, nshort>>

(***************************************************************************)
(* The processors of src/cli.py.                                           *)
(***************************************************************************)
Accept ==
    /\ pc = "Accept"
    /\ LET r == AcceptLoop(listeners, conns, 1) IN
         /\ listeners' = r.ls
         /\ conns' = r.cs
         /\ acceptTick' = (acceptTick \/ Len(r.cs) > Len(conns))
    /\ pc' = After(variant, "Accept")
    /\ UNCHANGED <<codecVars, regVars, variant, exc, pendings, ents, recordings, log, zeroRead,
                   npeer, nframes, ninputs, nshort>>

\* Parse.process of src/cli.py: the read, the scan of the registry and, in
\* CurrentConnection.__exit__, the reset on ConnectionError
Cli_Parse ==
    /\ pc = "Parse"
    /\ variant = "cli"
    /\ IF conns = <<>> \/ ~SockReadable(conns[1])
       THEN /\ pc' = After(variant, "Parse")
            /\ UNCHANGED <<exc, listeners, conns, recordings, log, zeroRead, nshort>>
       ELSE \E k \in RecvSizes(conns[1]) :
            \E r \in {SocketReader_read(conns[1], k)} :
            LET cs1 == [conns EXCEPT ![1] = r.conn] IN
            /\ nshort' = ShortCall(k, Len(conns[1].wire))
            /\ IF r.exc = "ConnectionError"
               THEN /\ listeners' = reset_connection(listeners, cs1).ls
                    /\ conns' = reset_connection(listeners, cs1).cs
                    /\ zeroRead' = "now"
                    /\ pc' = After(variant, "Parse")
                    /\ UNCHANGED <<exc, recordings, log>>
               ELSE IF r.exc # "none"
               THEN /\ conns' = cs1
                    /\ exc' = r.exc
                    /\ pc' = Stopped(r.exc)
                    /\ UNCHANGED <<listeners, recordings, log, zeroRead>>
               ELSE IF r.msg = None
               THEN /\ conns' = cs1
                    /\ pc' = After(variant, "Parse")
                    /\ UNCHANGED <<exc, listeners, recordings, log, zeroRead>>
               ELSE IF r.msg.type # "Command"
               THEN /\ conns' = cs1
                    /\ exc' = "AttributeError"
                    /\ pc' = "crashed"
                    /\ UNCHANGED <<listeners, recordings, log, zeroRead>>
               ELSE \E d \in {Dispatch(registry, r.msg)} :
                    /\ conns' = Cli_respondAll(cs1, d.eff.responses)
                    /\ recordings' = recordings + d.eff.record
                    /\ log' = log \o DispatchLog(r.msg, d)
                    /\ exc' = d.eff.exc
                    /\ pc' = (IF d.eff.exc = "none" THEN After(variant, "Parse")
                              ELSE Stopped(d.eff.exc))
                    /\ UNCHANGED <<listeners, zeroRead>>
    /\ UNCHANGED <<codecVars, regVars, variant, pendings, ents, acceptTick, npeer, nframes, ninputs>>

\* FlushResponses.process: one turn of the loop of send_enqueued_objects
\* (the step repeats while the socket is writeable and a frame is queued)
FlushResponses ==
    /\ pc = "FlushResponses"
    /\ IF conns = <<>> \/ ~conns[1].canWrite \/ conns[1].out = <<>>
       THEN /\ pc' = After(variant, "FlushResponses")
            /\ UNCHANGED <<listeners, conns, nshort>>
       ELSE \E k \in SendSizes(conns[1]) :
            \E r \in {send_enqueued_objects(conns[1], k)} :
            /\ nshort' = ShortCall(k, Len(Head(conns[1].out)))
            /\ IF r.exc = "ConnectionError"
               THEN /\ listeners' = reset_connection(listeners, [conns EXCEPT ![1] = r.conn]).ls
                    /\ conns' = reset_connection(listeners, [conns EXCEPT ![1] = r.conn]).cs
                    /\ pc' = After(variant, "FlushResponses")
               ELSE /\ conns' = [conns EXCEPT ![1] = r.conn]
                    /\ pc' = pc
                    /\ UNCHANGED listeners
    /\ UNCHANGED <<codecVars, regVars, variant, exc, pendings, ents, recordings, log, acceptTick,
                   zeroRead, npeer, nframes, ninputs>>

\* FinishProcessing.process of src/recorder.py, as far as the channel sees
\* it: each recording that completes dispatches RECORDER_COMPLETE, whose
\* handler emits a successful Response
Recorder ==
    /\ pc = "Recorder"
    /\ \E k \in 0..recordings :
         LET rs == [i \in 1..k |-> Response(TRUE, RECORDING_MESSAGE)] IN
         /\ recordings' = recordings - k
         /\ IF variant = "cli"
            THEN conns' = Cli_respondAll(conns, rs) /\ UNCHANGED ents
            ELSE ents' = ents \o [i \in 1..k |-> Entity(rs[i])] /\ UNCHANGED conns
    /\ pc' = After(variant, "Recorder")
    /\ UNCHANGED <<codecVars, regVars, variant, exc, listeners, pendings, log, acceptTick,
                   zeroRead, npeer, nframes, ninputs, nshort>>

(***************************************************************************)
(* The processors of src/ipc/clientserver.py.  Select, Read and Flush are  *)
(* written for the one Connection these processes ever hold (see           *)
(* IpcOneConnection).                                                      *)
(***************************************************************************)
\* a Select that attaches the marks and never removes one
Select_marks_kept(c) ==
    [c EXCEPT !.rd = @ \/ SockReadable(c), !.wr = @ \/ c.canWrite, !.polled = TRUE]

\* the body of Select.process for one Connection: each mark is attached
\* when select reports the capability and removed when it does not
Select_marks(c) ==
    [c EXCEPT !.rd = SockReadable(c), !.wr = c.canWrite, !.polled = TRUE]

Select ==
    /\ pc = "Select"
    /\ conns' = [i \in DOMAIN conns |-> Select_marks(conns[i])]
    /\ pc' = After(variant, "Select")
    /\ UNCHANGED <<codecVars, regVars, variant, exc, listeners, pendings, ents, recordings, log,
                   acceptTick, zeroRead, npeer, nframes, ninputs, nshort>>

\* Read.process: nothing catches what recv, the zero-length check or
\* decode_object raise
Read ==
    /\ pc = "Read"
    /\ IF conns = <<>> \/ ~conns[1].rd
       THEN /\ pc' = After(variant, "Read")
            /\ UNCHANGED <<exc, conns, ents, zeroRead, nshort>>
       ELSE \E k \in RecvSizes(conns[1]) :
            /\ nshort' = ShortCall(k, Len(conns[1].wire))
            /\ IF k < 0
               THEN /\ exc' = "OSError"
                    /\ pc' = "crashed"
                    /\ conns' = [conns EXCEPT ![1].recvs = @ + 1]
                    /\ UNCHANGED <<ents, zeroRead>>
               ELSE IF k = 0
               THEN /\ exc' = "ConnectionError"
                    /\ pc' = "crashed"
                    /\ zeroRead' = "now"
                    /\ conns' = [conns EXCEPT ![1].recvs = @ + 1]
                    /\ UNCHANGED ents
               ELSE \E c1 \in {Received(conns[1], k)} :
                    \E r \in {decode_object(c1.buf)} :
                    IF r.exc # "none"
                    THEN /\ conns' = [conns EXCEPT ![1] = c1]
                         /\ exc' = r.exc
                         /\ pc' = "crashed"
                         /\ UNCHANGED <<ents, zeroRead>>
                    ELSE /\ conns' = [conns EXCEPT ![1] =
                                         [c1 EXCEPT !.buf = r.rest,
                                                    !.got = IF r.msg # None
                                                            THEN Append(@, r.msg)
                                                            ELSE @]]
                         /\ ents' = (IF r.msg # None THEN Append(ents, Inbound(r.msg))
                                     ELSE ents)
                         /\ pc' = After(variant, "Read")
                         /\ UNCHANGED <<exc, zeroRead>>
    /\ UNCHANGED <<codecVars, regVars, variant, listeners, pendings, recordings, log, acceptTick,
                   npeer, nframes, ninputs>>

\* a partial send that leaves the head of the queue as it was
Flush_sent_keeping_head(c, bytes_sent) ==
    IF bytes_sent < Len(Head(c.out))
    THEN [c EXCEPT !.canWrite = FALSE, !.hsent = @ + bytes_sent,
                   !.tx = @ \o Take(Head(c.out), bytes_sent), !.sends = @ + 1]
    ELSE [c EXCEPT !.out = Tail(@), !.hsent = 0, !.done = @ + 1,
                   !.tx = @ \o Head(c.out), !.sends = @ + 1]

\* the end of Flush.process after send took bytes_sent > 0 bytes of the
\* head: the head becomes its unsent rest, or is popped
Flush_sent(c, bytes_sent) ==
    IF bytes_sent < Len(Head(c.out))
    THEN [c EXCEPT !.out[1] = Drop(Head(c.out), bytes_sent),
                   !.canWrite = FALSE, !.hsent = @ + bytes_sent,
                   !.tx = @ \o Take(Head(c.out), bytes_sent), !.sends = @ + 1]
    ELSE [c EXCEPT !.out = Tail(@), !.hsent = 0, !.done = @ + 1,
                   !.tx = @ \o Head(c.out), !.sends = @ + 1]

Flush ==
    /\ pc = "Flush"
    /\ IF conns = <<>> \/ ~conns[1].wr \/ conns[1].out = <<>>
       THEN /\ pc' = After(variant, "Flush")
            /\ UNCHANGED <<exc, conns, nshort>>
       ELSE \E bytes_sent \in SendSizes(conns[1]) :
            LET c == conns[1]
                to_send == Head(c.out)
            IN
            /\ nshort' = ShortCall(bytes_sent, Len(to_send))
            /\ IF bytes_sent = 0
               THEN /\ exc' = "ConnectionError"
                    /\ pc' = "crashed"
                    /\ conns' = [conns EXCEPT ![1].sends = @ + 1]
               ELSE /\ conns' = [conns EXCEPT ![1] = Flush_sent(c, bytes_sent)]
                    /\ pc' = After(variant, "Flush")
                    /\ UNCHANGED exc
    /\ UNCHANGED <<codecVars, regVars, variant, listeners, pendings, ents, recordings, log,
                   acceptTick, zeroRead, npeer, nframes, ninputs>>

\* the frames of the entities of one type, in the order the database lists
\* them
RECURSIVE FramesOf(_, _)
FramesOf(es, type) ==
    IF es = <<>> THEN <<>>
    ELSE (IF Head(es).msg.type = type THEN <<encode_object(Head(es).msg)>> ELSE <<>>)
            \o FramesOf(Tail(es), type)

\* the frames of a queue, end to end
RECURSIVE Flatten(_)
Flatten(frames) ==
    IF frames = <<>> THEN <<>> ELSE Head(frames) \o Flatten(Tail(frames))

DeleteAll(es, type) ==
    [i \in DOMAIN es |-> IF es[i].msg.type = type THEN [es[i] EXCEPT !.dead = TRUE]
                         ELSE es[i]]

\* SendCommand.process and Respond.process: every entity of the type is
\* encoded onto the queue of every Connection, and deleted
EnqueueAll(type) ==
    IF conns = <<>> THEN UNCHANGED <<conns, ents>>
    ELSE /\ conns' = [i \in DOMAIN conns |->
                         [conns[i] EXCEPT !.out = @ \o FramesOf(ents, type),
                                          !.enq = @ \o Flatten(FramesOf(ents, type))]]
         /\ ents' = DeleteAll(ents, type)

SendCommand ==
    /\ pc = "SendCommand"
    /\ EnqueueAll("Command")
    /\ pc' = After(variant, "SendCommand")
    /\ UNCHANGED <<codecVars, regVars, variant, exc, listeners, pendings, recordings, log,
                   acceptTick, zeroRead, npeer, nframes, ninputs, nshort>>

Respond ==
    /\ pc = "Respond"
    /\ EnqueueAll("Response")
    /\ pc' = After(variant, "Respond")
    /\ UNCHANGED <<codecVars, regVars, variant, exc, listeners, pendings, recordings, log,
                   acceptTick, zeroRead, npeer, nframes, ninputs, nshort>>

\* the IPC_CLIENT_RECEIVED_RESPONSE events of the Response entities
RECURSIVE ReceivedLog(_)
ReceivedLog(es) ==
    IF es = <<>> THEN <<>>
    ELSE (IF Head(es).msg.type = "Response"
          THEN <<[ev |-> "received", key |-> Head(es).msg.message,
                  args |-> <<Head(es).msg.succeeded>>]>>
          ELSE <<>>) \o ReceivedLog(Tail(es))

GetResponse ==
    /\ pc = "GetResponse"
    /\ log' = log \o ReceivedLog(ents)
    /\ ents' = DeleteAll(ents, "Response")
    /\ pc' = After(variant, "GetResponse")
    /\ UNCHANGED <<codecVars, regVars, variant, exc, listeners, pendings, conns, recordings,
                   acceptTick, zeroRead, npeer, nframes, ninputs, nshort>>

\* a guard that never sees the Connection
no_Connection_seen(cs) == FALSE

\* any(esper.get_component(Connection)): the entities marked dead are listed
\* too
any_Connection(cs) == cs # <<>>

\* Listen._ensure_listener
ensure_listener(ls) == IF ls # <<>> THEN ls ELSE <<NewListener>>

Listen ==
    /\ pc = "Listen"
    /\ IF any_Connection(conns)
       THEN UNCHANGED <<listeners, conns, acceptTick>>
       ELSE LET ls == ensure_listener(listeners)
                ready == {i \in DOMAIN ls : ls[i].backlog > 0}
            IN
            /\ listeners' = [i \in DOMAIN ls |->
                                IF i \in ready
                                THEN [ls[i] EXCEPT !.dead = TRUE, !.backlog = @ - 1]
                                ELSE ls[i]]
            /\ conns' = conns \o [j \in 1..Cardinality(ready) |-> NewConnection(FALSE)]
            /\ acceptTick' = (acceptTick \/ ready # {})
    /\ pc' = After(variant, "Listen")
    /\ UNCHANGED <<codecVars, regVars, variant, exc, pendings, ents, recordings, log, zeroRead,
                   npeer, nframes, ninputs, nshort>>

\* Parse.process of src/ipc/clientserver.py from the i-th of the n entities
\* listed when the loop began: a matching Parser ends the whole loop, the
\* help Response does not
RECURSIVE ParseLoop(_, _, _, _)
ParseLoop(ps, es, i, n) ==
    IF i > n THEN [ents |-> es, exc |-> "none", record |-> 0, log |-> <<>>]
    ELSE IF es[i].msg.type # "Command" THEN ParseLoop(ps, es, i + 1, n)
    ELSE LET command == es[i].msg
             d == Dispatch(ps, command)
             es1 == [es EXCEPT ![i].dead = TRUE]
                        \o [j \in DOMAIN d.eff.responses |-> Entity(d.eff.responses[j])]
         IN  IF d.matched
             THEN [ents |-> es1, exc |-> d.eff.exc, record |-> d.eff.record,
                   log |-> DispatchLog(command, d)]
             ELSE LET rest == ParseLoop(ps, es1, i + 1, n) IN
                  [rest EXCEPT !.log = DispatchLog(command, d) \o @]

Ipc_Parse ==
    /\ pc = "Parse"
    /\ variant = "engine"
    /\ \E r \in {ParseLoop(registry, ents, 1, Len(ents))} :
         /\ ents' = r.ents
         /\ recordings' = recordings + r.record
         /\ log' = log \o r.log
         /\ exc' = r.exc
         /\ pc' = (IF r.exc = "none" THEN After(variant, "Parse") ELSE Stopped(r.exc))
    /\ UNCHANGED <<codecVars, regVars, variant, listeners, pendings, conns, acceptTick, zeroRead,
                   npeer, nframes, ninputs, nshort>>

\* what s.connect(IPC_ADDRESS) on the non-blocking socket may do:
\* BlockingIOError (caught: the attempt is in progress), return at once, or
\* raise another OSError, which nothing catches
ConnectOutcomes == {"inprogress", "connected", "ConnectionRefusedError"}

\* a try that swallows every error of s.connect
connect_raises_nothing(o) == FALSE

\* try: s.connect(IPC_ADDRESS) / except BlockingIOError: pass -- whether the
\* outcome o leaves _ensure_connection_attempt as an exception
connect_raises(o) == o \notin {"none", "inprogress", "connected"}

\* a Connector that never opens a socket
ensure_connection_attempt_never(ps, o) == ps

\* Connect._ensure_connection_attempt, s.connect doing o without raising
ensure_connection_attempt(ps, o) == IF ps # <<>> THEN ps ELSE <<NewPending(o)>>

\* Connect.process; a PendingConnection is writeable once its connect has
\* ended, well or not
Connect ==
    /\ pc = "Connect"
    /\ IF any_Connection(conns)
       THEN /\ pc' = After(variant, "Connect")
            /\ UNCHANGED <<exc, pendings, conns>>
       ELSE \E o \in (IF pendings # <<>> THEN {"none"} ELSE ConnectOutcomes) :
            IF connect_raises(o)
            THEN /\ exc' = o
                 /\ pc' = "crashed"
                 /\ UNCHANGED <<pendings, conns>>
            ELSE LET ps == ensure_connection_attempt(pendings, o)
                     ready == {i \in DOMAIN ps : ps[i].state # "inprogress"}
                     promoted == SelectSeq(ps, LAMBDA p : p.state # "inprogress")
                 IN
                 /\ pendings' = [i \in DOMAIN ps |->
                                    IF i \in ready THEN [ps[i] EXCEPT !.dead = TRUE]
                                    ELSE ps[i]]
                 /\ conns' = conns \o [j \in DOMAIN promoted |->
                                          NewConnection(promoted[j].state = "refused")]
                 /\ pc' = After(variant, "Connect")
                 /\ UNCHANGED exc
    /\ UNCHANGED <<codecVars, regVars, variant, listeners, ents, recordings, log, acceptTick,
                   zeroRead, npeer, nframes, ninputs, nshort>>

(***************************************************************************)
(* The environment: the user, the peer process and the transport.          *)
(***************************************************************************)
\* str.split() white space, in ASCII
IsSpace(c) == c \in {9, 10, 11, 12, 13, 28, 29, 30, 31, 32}

\* s.strip().split()
RECURSIVE Split(_, _, _)
Split(s, cur, acc) ==
    IF s = <<>> THEN (IF cur = <<>> THEN acc ELSE Append(acc, cur))
    ELSE IF IsSpace(Head(s))
         THEN Split(Tail(s), <<>>, IF cur = <<>> THEN acc ELSE Append(acc, cur))
         ELSE Split(Tail(s), Append(cur, Head(s)), acc)

\* forward_user_input(user_input): the entities it creates
forward_user_input(user_input) ==
    LET split_input == Split(user_input, <<>>, <<>>) IN
    IF split_input = <<>> THEN <<>>
    ELSE <<Entity(Command(split_input[1], Tail(split_input)))>>

\* the lines the user types: "show okn", " help " and a blank line
UserLines ==
    {KEY_SHOW \o <<32>> \o ARG_OKN, <<32>> \o KEY_HELP \o <<32>>, <<32, 32>>}

\* the messages the peer sends
PeerMessages(v) ==
    IF v = "front"
    THEN {Response(TRUE, <<>>), Response(FALSE, SHOW_USAGE)}
    ELSE {Command(KEY_SHOW, <<ARG_OKN>>), Command(NAME_FROBNICATE, <<>>),
          Command(KEY_EXIT, <<>>), Command(KEY_RECORD, <<ARG_1S>>)}

\* a frame whose two declared bytes, "{}", are JSON but carry no type tag
MALFORMED_FRAME == PackLength(2) \o <<123, 125>>

\* what stands for the malformed frame among the messages the peer sends
Malformed == [type |-> "Malformed"]

\* the frame the peer sends for m
PeerFrame(m) == IF m = Malformed THEN MALFORMED_FRAME ELSE encode_object(m)

UserInput ==
    /\ BetweenTicks
    /\ variant = "front"
    /\ ninputs < MaxInputs
    /\ \E line \in UserLines : ents' = ents \o forward_user_input(line)
    /\ ninputs' = ninputs + 1
    /\ UNCHANGED <<codecVars, regVars, variant, pc, exc, listeners, pendings, conns, recordings,
                   log, acceptTick, zeroRead, npeer, nframes, nshort>>

\* the peer connects to a Listener
PeerConnect ==
    /\ BetweenTicks
    /\ npeer < MaxConnects
    /\ \E i \in Live(listeners) : listeners' = [listeners EXCEPT ![i].backlog = @ + 1]
    /\ npeer' = npeer + 1
    /\ UNCHANGED <<codecVars, regVars, variant, pc, exc, pendings, conns, ents, recordings, log,
                   acceptTick, zeroRead, nframes, ninputs, nshort>>

\* the peer's Listener takes the connect in progress
PeerAccept ==
    /\ BetweenTicks
    /\ \E i \in Live(pendings) :
         /\ pendings[i].state = "inprogress"
         /\ pendings' = [pendings EXCEPT ![i].state = "connected"]
    /\ UNCHANGED <<codecVars, regVars, variant, pc, exc, listeners, conns, ents, recordings, log,
                   acceptTick, zeroRead, npeer, nframes, ninputs, nshort>>

\* nothing listens at the address: the connect in progress fails
PeerRefuse ==
    /\ BetweenTicks
    /\ \E i \in Live(pendings) :
         /\ pendings[i].state = "inprogress"
         /\ pendings' = [pendings EXCEPT ![i].state = "refused"]
    /\ UNCHANGED <<codecVars, regVars, variant, pc, exc, listeners, conns, ents, recordings, log,
                   acceptTick, zeroRead, npeer, nframes, ninputs, nshort>>

\* the peer sends one frame
\* a message of the type the front-end or the engine sends itself and does
\* not expect to read
WrongTypeMessages(v) ==
    IF v = "front" THEN {Command(KEY_SHOW, <<ARG_OKN>>)}
    ELSE IF v = "engine" THEN {Response(TRUE, <<>>)}
    ELSE {}

PeerSend ==
    /\ BetweenTicks
    /\ nframes < MaxFrames
    /\ \E i \in Live(conns),
          m \in PeerMessages(variant) \cup WrongTypeMessages(variant) \cup {Malformed} :
         /\ ~conns[i].closed /\ ~conns[i].err
         /\ conns' = [conns EXCEPT ![i].wire = @ \o PeerFrame(m),
                                   ![i].sent = Append(@, m)]
    /\ nframes' = nframes + 1
    /\ UNCHANGED <<codecVars, regVars, variant, pc, exc, listeners, pendings, ents, recordings,
                   log, acceptTick, zeroRead, npeer, ninputs, nshort>>

\* the peer closes its end (or its process ends)
PeerClose ==
    /\ BetweenTicks
    /\ \E i \in Live(conns) :
         /\ ~conns[i].closed /\ ~conns[i].err
         /\ conns' = [conns EXCEPT ![i].closed = TRUE]
    /\ UNCHANGED <<codecVars, regVars, variant, pc, exc, listeners, pendings, ents, recordings,
                   log, acceptTick, zeroRead, npeer, nframes, ninputs, nshort>>

\* the peer reads: the send buffer has room again
TransportDrain ==
    /\ BetweenTicks
    /\ \E i \in DOMAIN conns :
         /\ ~conns[i].canWrite
         /\ conns' = [conns EXCEPT ![i].canWrite = TRUE]
    /\ UNCHANGED <<codecVars, regVars, variant, pc, exc, listeners, pendings, ents, recordings,
                   log, acceptTick, zeroRead, npeer, nframes, ninputs, nshort>>

Tick ==
    \/ ClearDeadEntities
    \/ Accept
    \/ Cli_Parse
    \/ FlushResponses
    \/ Recorder
    \/ Select
    \/ Read
    \/ Flush
    \/ SendCommand
    \/ GetResponse
    \/ Listen
    \/ Ipc_Parse
    \/ Connect
    \/ Respond

Environment ==
    \/ UserInput
    \/ PeerConnect
    \/ PeerAccept
    \/ PeerRefuse
    \/ PeerSend
    \/ PeerClose
    \/ TransportDrain

Next == Tick \/ Environment

Spec == Init /\ [][Next]_vars

\* the tick loop keeps turning (start_runloop's "while True") and the peer
\* reads what it is sent again and again
FairSpec == Spec /\ WF_vars(Tick) /\ SF_vars(TransportDrain)

(***************************************************************************)
(* ParseSpec: Parse.process of src/ipc/clientserver.py applied to a        *)
(* database that holds any number of Command entities.                     *)
(***************************************************************************)
PendingCommands ==
    UNION {[1..n -> {Inbound(m) : m \in PeerMessages("engine")}] : n \in 0..MaxPending}

ParseInit ==
    /\ cphase = "off"
    /\ cmsgs = <<>>
    /\ cbuf = <<>>
    /\ cprev = <<>>
    /\ cres = <<>>
    /\ cexc = "none"
    /\ ccut = FALSE
    /\ registry = Parsers("engine")
    /\ dispatched = <<>>
    /\ variant = "engine"
    /\ pc = "Parse"
    /\ exc = "none"
    /\ listeners = <<>>
    /\ pendings = <<>>
    /\ conns = <<NewConnection(FALSE)>>
    /\ ents \in PendingCommands
    /\ recordings = 0
    /\ log = <<>>
    /\ acceptTick = FALSE
    /\ zeroRead = "no"
    /\ npeer = 0
    /\ nframes = 0
    /\ ninputs = 0
    /\ nshort = 0

ParseSpec == ParseInit /\ [][Ipc_Parse]_vars

(***************************************************************************)
(* ClientSpec: src/cli.py run as a program, the blocking front-end.  One   *)
(* ServerConnection, and the loop that reads a line, sends its Command and *)
(* waits for the Response.                                                 *)
(***************************************************************************)
\* the lines the user types at the prompt: those of UserLines and every
\* short line of 'a', blank and tab
ClientLines ==
    UserLines \cup UNION {[1..n -> {97, 32, 9}] : n \in 0..MaxLineLen}

\* eval_user_input_as_command keeping the name among the arguments
eval_user_input_keeping_name(user_input) ==
    LET split_input == Split(user_input, <<>>, <<>>) IN
    IF split_input = <<>> THEN None
    ELSE Command(split_input[1], split_input)

\* eval_user_input_as_command(user_input): a Command, or None
eval_user_input_as_command(user_input) ==
    LET split_input == Split(user_input, <<>>, <<>>) IN
    IF split_input = <<>> THEN None
    ELSE Command(split_input[1], Tail(split_input))

\* the state after conn = ServerConnection() has connected
ClientInit ==
    /\ cphase = "off"
    /\ cmsgs = <<>>
    /\ cbuf = <<>>
    /\ cprev = <<>>
    /\ cres = <<>>
    /\ cexc = "none"
    /\ ccut = FALSE
    /\ registry = <<>>
    /\ dispatched = <<>>
    /\ variant = "client"
    /\ pc = "input"
    /\ exc = "none"
    /\ listeners = <<>>
    /\ pendings = <<>>
    /\ conns = <<NewConnection(FALSE)>>
    /\ ents = <<>>
    /\ recordings = 0
    /\ log = <<>>
    /\ acceptTick = FALSE
    /\ zeroRead = "no"
    /\ npeer = 0
    /\ nframes = 0
    /\ ninputs = 0
    /\ nshort = 0

\* one line of input: nothing to send, or the Command is enqueued and
\* send_enqueued_objects(blocking=True) loops until it has sent the whole
\* frame; a send to a peer that has closed may raise ConnectionError, which
\* send_and_await_response answers with sys.exit(1)
Client_send ==
    /\ pc = "input"
    /\ ninputs < MaxInputs
    /\ ninputs' = ninputs + 1
    /\ \E line \in ClientLines :
       \E command \in {eval_user_input_as_command(line)} :
         IF command = None
         THEN /\ log' = Append(log, [ev |-> "input", key |-> line, args |-> <<>>])
              /\ UNCHANGED <<pc, exc, conns>>
         ELSE \E c \in {enqueue_object(conns[1], command)} :
              \E lost \in (IF conns[1].closed THEN BOOLEAN ELSE {FALSE}) :
                /\ log' = log \o <<[ev |-> "input", key |-> line, args |-> <<>>],
                                   [ev |-> "sent", key |-> command.name,
                                    args |-> command.arguments]>>
                /\ IF lost
                   THEN /\ conns' = <<c>>
                        /\ exc' = "SystemExit"
                        /\ pc' = "exited"
                   ELSE /\ conns' = <<[c EXCEPT !.out = <<>>, !.done = @ + 1,
                                                !.tx = @ \o Head(c.out)]>>
                        /\ pc' = "await"
                        /\ UNCHANGED exc
    /\ UNCHANGED <<codecVars, regVars, variant, listeners, pendings, ents, recordings,
                   acceptTick, zeroRead, npeer, nframes, nshort>>

\* self._reader.read() once the blocking select has returned, and the use
\* the loop makes of what it returns: response.succeeded, response.message
Client_read ==
    /\ pc = "await"
    /\ SockReadable(conns[1])
    /\ \E k \in RecvSizes(conns[1]) :
       \E r \in {SocketReader_read(conns[1], k)} :
         /\ nshort' = ShortCall(k, Len(conns[1].wire))
         /\ conns' = <<r.conn>>
         /\ IF r.exc = "ConnectionError"
            THEN exc' = "SystemExit" /\ pc' = "exited" /\ UNCHANGED log
            ELSE IF r.exc # "none"
            THEN exc' = r.exc /\ pc' = "crashed" /\ UNCHANGED log
            ELSE IF r.msg = None
            THEN /\ log' = Append(log, [ev |-> "returned_none", key |-> <<>>, args |-> <<>>])
                 /\ exc' = "AttributeError"
                 /\ pc' = "crashed"
            ELSE IF r.msg.type # "Response"
            THEN exc' = "AttributeError" /\ pc' = "crashed" /\ UNCHANGED log
            ELSE /\ log' = Append(log, [ev |-> "received", key |-> r.msg.message,
                                        args |-> <<r.msg.succeeded>>])
                 /\ pc' = "input"
                 /\ UNCHANGED exc
    /\ UNCHANGED <<codecVars, regVars, variant, listeners, pendings, ents, recordings,
                   acceptTick, zeroRead, npeer, nframes, ninputs>>

\* the daemon answers a Command it has been sent with one Response, or its
\* process ends
Client_peer ==
    /\ ~conns[1].closed
    /\ \/ /\ Len(conns[1].sent) < conns[1].done
          /\ \E m \in PeerMessages("front") :
                conns' = <<[conns[1] EXCEPT !.wire = @ \o PeerFrame(m),
                                            !.sent = Append(@, m)]>>
       \/ conns' = <<[conns[1] EXCEPT !.closed = TRUE]>>
    /\ UNCHANGED <<codecVars, regVars, variant, pc, exc, listeners, pendings, ents,
                   recordings, log, acceptTick, zeroRead, npeer, nframes, ninputs, nshort>>

ClientNext == Client_send \/ Client_read \/ Client_peer

ClientSpec == ClientInit /\ [][ClientNext]_vars

(***************************************************************************)
(* The codec's claims (CodecSpec).                                         *)
(***************************************************************************)
\* the first decode_object call on the frames of cmsgs, whole
FirstCallOnWhole ==
    /\ cphase = "decoded"
    /\ ~ccut
    /\ cprev = EncodeAll(cmsgs)

\* C7: round trip.  decode_object(encode_object(m)) returns m as the message
\* and an empty remainder, for every Command and Response m.
C7_RoundTrip ==
    (FirstCallOnWhole /\ Len(cmsgs) = 1)
        => (cexc = "none" /\ cres = cmsgs /\ cbuf = <<>>)

\* a round trip of a Command whose name holds a quote and whose argument a
\* line feed
C7_Witness ==
    /\ FirstCallOnWhole
    /\ cmsgs = <<Command(<<34>>, <<(<<10>>)>>)>>
    /\ cres = cmsgs
    /\ cbuf = <<>>

\* the length the first four bytes of the buffer declare
DeclaredLength(b) == UnpackLength(SubSeq(b, 1, LENGTH_SIZE))

\* the buffer is too short for decode_object to decode a frame from it
TooShort(b) ==
    \/ Len(b) < LENGTH_SIZE
    \/ Len(b) < LENGTH_SIZE + DeclaredLength(b)

\* C8: on a buffer shorter than 4 bytes, or shorter than 4 + L, decode_object
\* returns (None, buffer), the buffer unchanged, and raises nothing.
C8_ShortBufferReturnsNone ==
    (cphase = "decoded" /\ TooShort(cprev))
        => (cexc = "none" /\ cres[Len(cres)] = None /\ cbuf = cprev)

\* C8, for the buffers that hold the length prefix: the part of the claim
\* the code keeps
C8_ShortPayloadReturnsNone ==
    (cphase = "decoded" /\ Len(cprev) >= LENGTH_SIZE /\ TooShort(cprev))
        => (cexc = "none" /\ cres[Len(cres)] = None /\ cbuf = cprev)

\* C9: on k concatenated frames, repeated decode_object calls return the k
\* messages in order, each call consuming the 4 + L bytes of one frame, and
\* the call after the last returns None.
C9_FramesInOrder ==
    (cphase = "decoded" /\ ~ccut)
        => /\ cexc = "none"
           /\ \A i \in DOMAIN cres :
                cres[i] = (IF i <= Len(cmsgs) THEN cmsgs[i] ELSE None)
           /\ cbuf = EncodeAll(SubSeq(cmsgs, Min(Len(cres), Len(cmsgs)) + 1, Len(cmsgs)))

(***************************************************************************)
(* The channel's claims (Spec, FairSpec).                                  *)
(***************************************************************************)
\* the roles that listen: the daemon of src/cli.py and the front-end of
\* src/ipc
Listening == variant \in {"cli", "front"}

\* the ipc processes hold one Connection at most, the one Select, Read and
\* Flush are written for
IpcOneConnection == variant \in {"front", "engine"} => Len(conns) <= 1

\* C1: a zero-length read or a zero-length send never ends the tick loop, in
\* any role or variant: the ConnectionError it raises is handled.
C1_TransportFailureNeverStopsLoop == exc = "ConnectionError" => pc # "crashed"

\* C2: on the listening side, a zero-length read destroys the Connection,
\* the tick loop goes on, and the following tick begins with a Listener.
C2_ZeroReadRelistens ==
    Listening =>
        /\ zeroRead = "now" => (pc # "crashed" /\ Live(conns) = {})
        /\ (zeroRead = "next" /\ pc = Order(variant)[2]) => Live(listeners) # {}

\* C3: on the listening side, a Listener and a Connection never exist
\* together, but for the tick in which the accept happens.
C3_ListenerXorConnection ==
    (Listening /\ ~acceptTick) => (Live(listeners) = {} \/ Live(conns) = {})

\* C4: on the connecting side, at most one of {PendingConnection,
\* Connection} exists: the promoted PendingConnection is gone, and none is
\* created while the Connection exists.
C4_PendingXorConnection ==
    variant = "engine" => Cardinality(Live(pendings)) + Cardinality(Live(conns)) <= 1

\* Connect.process has just run with the Connection of an earlier tick in
\* place, and has created no PendingConnection
C4_Witness ==
    /\ variant = "engine"
    /\ pc = After("engine", "Connect")
    /\ Live(conns) = {1}
    /\ pendings = <<>>

\* C5: a process never has more than one Connection.
C5_AtMostOneConnection == Cardinality(Live(conns)) <= 1

\* C6: a process never has more than one live Listener, whatever resets
\* ConnectionError has caused within a tick or across ticks.
C6_AtMostOneListener == Cardinality(Live(listeners)) <= 1

\* a frame at the head of a queue is sent in part, the peer connected
PartlySent ==
    \E i \in DOMAIN conns : conns[i].hsent > 0 /\ ~conns[i].closed /\ ~conns[i].dead

\* no frame is left sent in part: the rest went out and the frame left the
\* queue, or the peer has closed, or the process was told to exit
NothingPartlySent ==
    \/ \A i \in DOMAIN conns : conns[i].hsent = 0 \/ conns[i].closed
    \/ pc = "exited"

\* C10: when the transport takes K of the N bytes of the head frame
\* (0 < K < N), the remaining bytes are sent on later writable ticks: with
\* the peer connected and the transport taking bytes, the frame is sent
\* whole and leaves the queue.
C10_PartialWritesComplete == PartlySent ~> NothingPartlySent

\* the partial writes complete in every run that no uncaught exception ends
PartialWritesCompleteUnlessCrashed ==
    PartlySent ~> (NothingPartlySent \/ pc = "crashed")

\* C11: on every Connection, the bytes handed to the transport followed by
\* the frames still queued are the frames enqueued, in enqueue order: no
\* byte is reordered, duplicated or dropped, and no frame overtakes a partly
\* sent head.
C11_OutboundOrder ==
    \A i \in DOMAIN conns : conns[i].tx \o Flatten(conns[i].out) = conns[i].enq

\* a frame waits behind a head that was sent in part
C11_Witness ==
    \E i \in DOMAIN conns :
        /\ conns[i].hsent > 0
        /\ Len(conns[i].out) >= 2
        /\ conns[i].tx \o Flatten(conns[i].out) = conns[i].enq

\* the keys of the registered Parsers
RegisteredKeys == {registry[i].key : i \in DOMAIN registry}

\* the log entries that follow the take-up at index i, up to the next
\* take-up
DispatchOf(i) ==
    {j \in DOMAIN log :
        /\ j > i
        /\ \A k \in (i + 1)..j : log[k].ev # "command"}

\* C12: a Command whose name is the key of a registered Parser has that
\* Parser's callback invoked exactly once, with exactly the Command's
\* arguments, and gets no fallback help Response.
C12_MatchInvokesCallbackOnce ==
    \A i \in DOMAIN log :
        (log[i].ev = "command" /\ log[i].key \in RegisteredKeys) =>
            /\ Cardinality({j \in DispatchOf(i) : log[j].ev = "callback"}) = 1
            /\ \A j \in DispatchOf(i) :
                  /\ log[j].ev # "help"
                  /\ log[j].ev = "callback" =>
                        (log[j].key = log[i].key /\ log[j].args = log[i].args)

\* "show okn" has been dispatched to the callback registered as "show"
C12_Witness ==
    \E i \in DOMAIN log :
        /\ log[i] = [ev |-> "command", key |-> KEY_SHOW, args |-> <<ARG_OKN>>]
        /\ i < Len(log)
        /\ log[i + 1] = [ev |-> "callback", key |-> KEY_SHOW, args |-> <<ARG_OKN>>]

\* the Responses emitted in the dispatch of the Command taken up at index i
ResponsesOf(i) == {j \in DispatchOf(i) : log[j].ev = "response"}

\* one line of the listing
ListingLine(p) == HELP_ITEM \o p.key \o HELP_SEP \o p.description

\* "Supported commands:", one line per registered Parser in registration
\* order, and the line of help
ExpectedListing ==
    HELP_HEAD \o ListingLine(registry[1]) \o ListingLine(registry[2])
        \o ListingLine(registry[3]) \o HELP_TAIL

\* a take-up of a Command that no Parser matches and that is not "help"
UnknownCommand(e) ==
    e.ev = "command" /\ e.key \notin RegisteredKeys \cup {KEY_HELP}

\* every unknown Command taken up so far got exactly one Response, the
\* listing with succeeded = false
UnknownGetsListing ==
    \A i \in DOMAIN log :
        UnknownCommand(log[i]) =>
            \E j \in DOMAIN log :
                /\ ResponsesOf(i) = {j}
                /\ log[j].key = ExpectedListing
                /\ log[j].args = <<FALSE>>

\* this step takes up an unknown Command
TakesUnknown ==
    /\ Len(log') > Len(log)
    /\ \E i \in (Len(log) + 1)..Len(log') : UnknownCommand(log'[i])

\* this step deletes no Connection and does not stop the process, and the
\* listing is on its way: queued on the Connection (src/cli.py), or an
\* entity for Respond to queue (src/ipc/clientserver.py)
ListingLeavesConnection ==
    /\ pc' \notin {"crashed", "exited"}
    /\ Len(conns') = Len(conns)
    /\ conns # <<>>
    /\ \A k \in DOMAIN conns : conns'[k].dead = conns[k].dead /\ ~conns'[k].dead
    /\ IF variant = "cli"
       THEN conns'[1].enq =
                conns[1].enq \o encode_object(Response(FALSE, ExpectedListing))
       ELSE {k \in DOMAIN ents' : k > Len(ents)
                 /\ ents'[k] = Entity(Response(FALSE, ExpectedListing))}
                = {Len(ents) + 1}

\* C13: a Command whose name matches no registered Parser and is not "help"
\* yields exactly one Response, with succeeded = false and the listing as
\* its message ("Supported commands:", one "\n\t=> key: description" line
\* per Parser in registration order, then "\n\t=> help: show this
\* message"), and the Connection is left intact.
C13_UnknownCommandGetsListing ==
    [][UnknownGetsListing' /\ (TakesUnknown => ListingLeavesConnection)]_vars

\* "frobnicate" has been answered with the listing
C13_Witness ==
    \E i \in DOMAIN log :
        /\ log[i].ev = "command" /\ log[i].key = NAME_FROBNICATE
        /\ \E j \in ResponsesOf(i) :
              log[j].key = ExpectedListing /\ log[j].args = <<FALSE>>
        /\ \E k \in DOMAIN conns : ~conns[k].dead

\* the lines of the listing of a registry
RECURSIVE ListingLines(_)
ListingLines(ps) ==
    IF ps = <<>> THEN <<>>
    ELSE ListingLines(SubSeq(ps, 1, Len(ps) - 1)) \o ListingLine(ps[Len(ps)])

\* Command{name: "help", arguments: []} was the last Command dispatched
HelpDispatched ==
    dispatched # <<>> /\ dispatched[1].command = Command(KEY_HELP, <<>>)

\* the dispatch called no Parser and emitted one Response, the listing of
\* the registry with succeeded = true
YieldsListing ==
    /\ ~dispatched[1].d.matched
    /\ dispatched[1].d.eff.responses =
           <<Response(TRUE, HELP_HEAD \o ListingLines(dispatched[1].ps) \o HELP_TAIL)>>

\* C14 as stated: "help" yields the listing with succeeded = true in every
\* state of the registry.
C14_HelpAlwaysListing == HelpDispatched => YieldsListing

\* C14: "help" yields the listing with succeeded = true in every state of
\* the registry in which no Parser is registered with the key "help"; a
\* Parser registered as "help" is matched first and called instead.
C14_HelpListingUnlessRegistered ==
    (/\ HelpDispatched
     /\ \A i \in DOMAIN dispatched[1].ps : dispatched[1].ps[i].key # KEY_HELP)
        => YieldsListing

\* "help" dispatched on the registry of the engine
C14_Witness ==
    /\ HelpDispatched
    /\ dispatched[1].ps = Parsers("engine")
    /\ YieldsListing

\* the buffer begins with a whole frame whose declared bytes are not a
\* valid tagged Command or Response
FirstFrameMalformed(buf) ==
    /\ Len(buf) >= LENGTH_SIZE
    /\ Len(buf) >= LENGTH_SIZE + UnpackLength(Take(buf, LENGTH_SIZE))
    /\ ~JsonDecode(SubSeq(buf, LENGTH_SIZE + 1,
                          LENGTH_SIZE + UnpackLength(Take(buf, LENGTH_SIZE)))).ok

\* C15: a frame whose declared bytes do not parse as a valid tagged Command
\* or Response never stops the process: its decode error is handled like a
\* disconnection.
C15_DecodeErrorNeverStopsProcess ==
    \A i \in DOMAIN conns :
        FirstFrameMalformed(conns[i].buf) => pc \notin {"crashed", "exited"}

\* the Commands this step takes up
TakenUp == {i \in (Len(log) + 1)..Len(log') : log'[i].ev = "command"}

CommandsEnqueued(c) == c.done + Len(c.out)

\* the Responses the front-end has read so far: those surfaced to the user
\* interface and those waiting for GetResponse
ResponsesRead ==
    Cardinality({i \in DOMAIN log : log[i].ev = "received"})
        + Cardinality({i \in DOMAIN ents :
                          ents[i].msg.type = "Response" /\ ~ents[i].dead})

\* C17: the front-end never has a second Command enqueued on its
\* Connection before the Response to the previous one has been read: at
\* most one Command is outstanding.
C17_OneCommandOutstanding ==
    variant = "front" =>
        \A i \in DOMAIN conns : CommandsEnqueued(conns[i]) - ResponsesRead <= 1

\* the buffer begins with a whole frame whose declared bytes are a valid
\* tagged Command or Response
FirstFrameComplete(buf) ==
    /\ Len(buf) >= LENGTH_SIZE
    /\ Len(buf) >= LENGTH_SIZE + UnpackLength(Take(buf, LENGTH_SIZE))
    /\ JsonDecode(SubSeq(buf, LENGTH_SIZE + 1,
                         LENGTH_SIZE + UnpackLength(Take(buf, LENGTH_SIZE)))).ok

\* C18: a Read step that does not disconnect leaves no complete frame in
\* the inbound buffer, also when one read delivered more than one frame
\* (the buffer changes in Read steps only, so this is: no state has a
\* complete frame in a buffer).
C18_NoCompleteFrameLeftInBuffer ==
    \A i \in DOMAIN conns : ~FirstFrameComplete(conns[i].buf)

IsPrefix(a, b) == Len(a) <= Len(b) /\ a = SubSeq(b, 1, Len(a))

\* the Message a log entry surfaced
SurfacedMessage(e) ==
    IF e.ev = "command" THEN Command(e.key, e.args) ELSE Response(e.args[1], e.key)

\* the Messages surfaced so far, in order: the Commands dispatched on the
\* daemon, the Response events on the front-end
Surfaced ==
    LET es == SelectSeq(log, LAMBDA e : e.ev \in {"command", "received"}) IN
    [i \in DOMAIN es |-> SurfacedMessage(es[i])]

\* the Messages decoded from the Connection that this process surfaces:
\* the Responses on the front-end, the Commands on a daemon
GotToSurface(c) ==
    SelectSeq(c.got, LAMBDA m : m.type = (IF variant = "front" THEN "Response"
                                          ELSE "Command"))

\* C19: on one Connection the Messages are surfaced in exactly the order of
\* their frames in the byte stream, whatever the split of the stream into
\* reads: what decode_object has returned from a Connection is at every
\* moment the beginning of what the peer has sent on it, and what has been
\* surfaced is the beginning of the Commands (on a daemon) or Responses (on
\* the front-end) among them.
C19_InboundOrder ==
    \A i \in DOMAIN conns :
        /\ IsPrefix(conns[i].got, conns[i].sent)
        /\ variant \in {"front", "engine"} => IsPrefix(Surfaced, GotToSurface(conns[i]))

\* two Messages surfaced from one Connection, one of them read in two
\* pieces
C19_Witness ==
    /\ variant \in {"front", "engine"}
    /\ nshort > 0
    /\ \E i \in DOMAIN conns :
          /\ Len(conns[i].got) = 2
          /\ conns[i].got[1] # conns[i].got[2]
          /\ Surfaced = conns[i].got
          /\ conns[i].got = conns[i].sent

\* a tick of a listening process ends with a Listener if it ends with no
\* Connection
EndOfTickListens ==
    [][(Listening /\ pc # "clear" /\ pc' = "clear" /\ Live(conns)' = {})
          => Live(listeners)' # {}]_vars

\* the peer has closed every Connection of the running process, with
\* nothing left unread
Disconnected ==
    /\ pc \notin {"crashed", "exited"}
    /\ Live(conns) # {}
    /\ \A i \in Live(conns) :
          conns[i].closed /\ conns[i].wire = <<>> /\ conns[i].buf = <<>>

\* C20: on the listening role, every tick that ends with no Connection ends
\* with a Listener, and after the Connection has gone a Listener is there
\* again on a later tick, with no action from outside.
C20_ListenerLiveness ==
    /\ EndOfTickListens
    /\ (Listening /\ Disconnected) ~> (Live(listeners) # {})

\* a step of Connect.process
ConnectStep == pc = "Connect" /\ pc' # "Connect"

\* the PendingConnections this step has created
PendingsCreated == Len(pendings') - Len(pendings)

\* every PendingConnection whose socket is writeable is deleted for a
\* Connection on the same socket (refused or connected, as the socket
\* was), with an empty inbound buffer and an empty outbound queue; the
\* others stay, and no other Connection appears
Promotion ==
    LET ready == {i \in DOMAIN pendings' : pendings'[i].dead} IN
    /\ \A i \in DOMAIN pendings' : i \notin ready => pendings'[i].state = "inprogress"
    /\ Len(conns') = Cardinality(ready)
    /\ \A j \in DOMAIN conns' :
          /\ conns'[j].buf = <<>> /\ conns'[j].out = <<>>
          /\ ~conns'[j].dead
          /\ \E i \in ready : conns'[j].err = (pendings'[i].state = "refused")

\* C21 as stated: a Connect tick with neither a Connection nor a
\* PendingConnection creates exactly one PendingConnection, and a writeable
\* PendingConnection is replaced by a fresh Connection on its socket.
C21_ConnectorLifecycle ==
    [][(ConnectStep /\ Live(conns) = {})
          => /\ Live(pendings) = {} => PendingsCreated = 1
             /\ Promotion]_vars

\* C21: the same, for the Connect ticks in which s.connect raises nothing
\* but BlockingIOError; when it raises another error the tick loop ends with
\* no PendingConnection created.
C21_ConnectorLifecycleUnlessRaised ==
    [][(ConnectStep /\ Live(conns) = {})
          => IF exc' = "none"
             THEN /\ Live(pendings) = {} => PendingsCreated = 1
                  /\ Promotion
             ELSE pendings' = pendings /\ conns' = conns]_vars

\* a PendingConnection has just been replaced by a Connection
C21_Witness ==
    /\ variant = "engine"
    /\ pc = After("engine", "Connect")
    /\ \E i \in DOMAIN pendings : pendings[i].dead
    /\ Len(conns) = 1 /\ conns[1].buf = <<>> /\ conns[1].out = <<>>

C23_OneReadOneWritePerTick ==
    \A i \in DOMAIN conns : conns[i].recvs <= 1 /\ conns[i].sends <= 1

\* the processes of src/ipc/clientserver.py, which poll in Select
Polling == variant \in {"front", "engine"}

\* as Read is about to run, every Connection has been polled in this tick
\* and carries the marks of that poll, those of earlier ticks removed
MarksAreCurrent ==
    \A i \in DOMAIN conns :
        /\ conns[i].polled
        /\ conns[i].rd = SockReadable(conns[i])
        /\ conns[i].wr = conns[i].canWrite

\* this step calls recv only on a Connection polled readable in this tick,
\* and send only on one polled writeable in this tick
IoOnlyWhenPolled ==
    \A i \in DOMAIN conns :
        i \in DOMAIN conns' =>
            /\ conns'[i].recvs > conns[i].recvs => (conns[i].polled /\ conns[i].rd)
            /\ conns'[i].sends > conns[i].sends => (conns[i].polled /\ conns[i].wr)

\* C24: a recv is attempted on a Connection only in a tick whose poll
\* reported it readable and a send only in a tick whose poll reported it
\* writeable; the marks are those of the current tick's poll when Read and
\* Flush run, and a Connection created in a tick is not read or written
\* before it has been polled.
C24_IoFollowsCurrentPoll ==
    [][Polling => /\ (pc = "Select" /\ pc' = "Read") => MarksAreCurrent'
                  /\ IoOnlyWhenPolled]_vars

\* a Connection that was read in an earlier tick is polled not readable,
\* its mark removed, and is written in this tick
C24_Witness ==
    /\ Polling
    /\ \E i \in DOMAIN conns :
          /\ conns[i].got # <<>>
          /\ conns[i].polled /\ ~conns[i].rd
          /\ conns[i].sends = 1

\* a step of the write step: Flush.process, or FlushResponses.process with
\* the loop of send_enqueued_objects
WriteStep == pc \in {"Flush", "FlushResponses"}

\* the frames that stood behind the head when the tick began are all
\* still queued, unchanged and in their order, behind the head or, the head
\* popped, from the front of the queue
BehindHeadKept(c) ==
    \/ c.out0 = <<>>
    \/ /\ Len(c.out) >= Len(c.out0)
       /\ SubSeq(c.out, 2, Len(c.out0)) = Tail(c.out0)
    \/ /\ Len(c.out) >= Len(c.out0) - 1
       /\ SubSeq(c.out, 1, Len(c.out0) - 1) = Tail(c.out0)

\* C25: a write step changes only the head of the outbound queue: with an
\* empty queue it sends nothing, otherwise the entries behind the head keep
\* their content and position, and the inbound buffer is unchanged.
C25_WriteStepChangesOnlyHead ==
    [][WriteStep =>
          \A i \in DOMAIN conns :
              /\ conns'[i].buf = conns[i].buf
              /\ conns[i].out = <<>> =>
                    (conns'[i].out = <<>> /\ conns'[i].sends = conns[i].sends)
              /\ BehindHeadKept(conns'[i])]_vars

\* the registry only grows, at its end
AppendOnly == registry = SubSeq(registry', 1, Len(registry))

\* the Parsers registered under the name of the Command dispatched
Keyed == {i \in DOMAIN dispatched[1].ps :
             dispatched[1].ps[i].key = dispatched[1].command.name}

\* the dispatch invoked one callback at most, and when Parsers are
\* registered under the Command's name, the callback of the earliest of
\* them and no other
FirstMatchOnly ==
    dispatched # <<>> =>
        /\ Len(dispatched[1].d.calls) <= 1
        /\ \A i \in Keyed :
              (\A j \in Keyed : i <= j) =>
                  dispatched[1].d.calls = <<dispatched[1].ps[i].parse>>

\* C26: the registry is append-only and matching is first-match in
\* registration order: with two entries under one key only the callback
\* registered earlier is invoked for that key, and at most one callback is
\* invoked per Command.
C26_FirstMatchInRegistrationOrder == [][AppendOnly /\ FirstMatchOnly']_vars

\* "show" dispatched on a registry that holds two Parsers keyed "show" with
\* different callbacks
C26_Witness ==
    /\ dispatched # <<>>
    /\ dispatched[1].command.name = KEY_SHOW
    /\ \E i, j \in Keyed :
          /\ i < j
          /\ dispatched[1].ps[i].parse # dispatched[1].ps[j].parse
          /\ dispatched[1].d.calls = <<dispatched[1].ps[i].parse>>

\* the Responses decoded from a Connection so far, in order
ResponsesGot(c) == SelectSeq(c.got, LAMBDA m : m.type = "Response")

\* C27: every Response decoded on the front-end's Connection is surfaced
\* exactly once as a "response received" event carrying its succeeded and
\* message, and then discarded: the events are at every moment the
\* beginning of the Responses decoded, and all of them once the steps from
\* Read to GetResponse are over.
C27_ResponseSurfacedOnce ==
    variant = "front" =>
        \A i \in DOMAIN conns :
            /\ IsPrefix(Surfaced, ResponsesGot(conns[i]))
            /\ pc \notin {"Flush", "SendCommand", "GetResponse"} =>
                  Surfaced = ResponsesGot(conns[i])


\* the value of four bytes read as an unsigned integer, most significant first
BigEndian(b) == b[1] * 16777216 + b[2] * 65536 + b[3] * 256 + b[4]

\* the buffer holds the frame of one message, as encode_object returned it
OneFrameEncoded ==
    /\ cphase = "encoded"
    /\ ~ccut
    /\ Len(cmsgs) = 1

\* C28: frame layout.  encode_object outputs exactly 4 + L bytes, where L is
\* the length of the message's JSON payload; the first four bytes, read as a
\* big-endian unsigned 32-bit integer, equal L and the payload follows them.
C28_FrameLayout ==
    OneFrameEncoded =>
        \E payload \in {JsonEncode(cmsgs[1])} :
            /\ Len(cbuf) = 4 + Len(payload)
            /\ \A i \in 1..4 : cbuf[i] \in 0..255
            /\ BigEndian(SubSeq(cbuf, 1, 4)) = Len(payload)
            /\ SubSeq(cbuf, 5, Len(cbuf)) = payload

\* the frame of a message whose payload length does not fit in one byte
C28_Witness ==
    /\ OneFrameEncoded
    /\ Len(cbuf) > 4 + 255
    /\ cbuf[3] > 0
    /\ cbuf[4] > 0

\* the Connection is on a socket whose connect was refused
OnRefusedSocket(c) == c.err

\* C29: only a connect that succeeded is promoted.  In a process that
\* connects, no Connection is on a socket whose connect attempt was refused.
C29_OnlySucceededConnectsPromoted ==
    variant \in {"front", "engine"} =>
        \A i \in DOMAIN conns : ~OnRefusedSocket(conns[i])

\* a step of Respond.process or of SendCommand.process
EnqueueStep == pc \in {"Respond", "SendCommand"} /\ pc' # pc

\* the type of Message the step enqueues
EnqueuedType == IF pc = "Respond" THEN "Response" ELSE "Command"

\* the entities of that type that this process created itself (a callback,
\* the help listing, the Recorder or the user's input)
ProducedHere ==
    {i \in DOMAIN ents : ents[i].msg.type = EnqueuedType /\ ~ents[i].inbound}

\* C30: no echo.  A process only transmits messages it produced itself:
\* Respond on the daemon and SendCommand on the front-end enqueue on a
\* Connection no more frames than there are Messages the process created,
\* so none for a Response or Command that Read decoded from the Connection.
C30_NoEcho ==
    [][EnqueueStep =>
          \A j \in DOMAIN conns :
              Len(conns'[j].out) - Len(conns[j].out) <= Cardinality(ProducedHere)]_vars

\* the number of Responses a log records as emitted by a callback or by the
\* help listing
ResponseEvents(l) == Cardinality({i \in DOMAIN l : l[i].ev = "response"})

\* the number of Responses this step emits through respond: those of the
\* command dispatched and those of the recordings that complete
EmittedNow ==
    (ResponseEvents(log') - ResponseEvents(log))
        + (IF pc = "Recorder" THEN recordings - recordings' ELSE 0)

\* the number of frames this step appends to the outbound queue of
\* Connection j
Growth(j) == Len(conns'[j].out) - Len(conns[j].out)

\* the Response entities that wait for Respond.process
WaitingResponses(es) ==
    {i \in DOMAIN es : es[i].msg.type = "Response" /\ ~es[i].inbound /\ ~es[i].dead}

\* exactly one Connection's outbound queue grows, by at least n frames
EnqueuedOnOne(n) ==
    /\ DOMAIN conns' = DOMAIN conns
    /\ \E j \in DOMAIN conns :
          /\ Growth(j) >= n
          /\ \A k \in DOMAIN conns \ {j} : Growth(k) = 0

\* C31: every Response emitted through respond is enqueued on a Connection's
\* outbound queue exactly once, never duplicated and never dropped, also
\* when it is emitted while no Connection exists or when a recording
\* completes on a later tick.  On cli the step that emits enqueues; on the
\* engine the step that emits creates the entities, and Respond.process
\* enqueues them on one Connection and deletes them, or keeps them while
\* there is no Connection.
C31_ResponseEnqueuedOnce ==
    [][/\ (variant = "cli" /\ EmittedNow > 0) =>
              /\ EnqueuedOnOne(EmittedNow)
              /\ \E j \in DOMAIN conns : Growth(j) = EmittedNow
       /\ (variant = "engine" /\ EmittedNow > 0) =>
              Cardinality(WaitingResponses(ents'))
                  = Cardinality(WaitingResponses(ents)) + EmittedNow
       /\ (variant = "engine" /\ pc = "Respond" /\ pc' # pc) =>
              IF conns = <<>> THEN ents' = ents /\ conns' = conns
              ELSE /\ EnqueuedOnOne(Cardinality(WaitingResponses(ents)))
                   /\ WaitingResponses(ents') = {}]_vars

\* the Command entities forward_user_input created that wait for
\* SendCommand.process
WaitingCommands(es) ==
    {i \in DOMAIN es : es[i].msg.type = "Command" /\ ~es[i].inbound /\ ~es[i].dead}

\* the front-end's half: SendCommand.process enqueues the waiting Commands
\* on the Connection and deletes them, or keeps them while there is no
\* Connection; no other step loses one
CommandsEnqueuedOnce ==
    [][variant = "front" =>
          IF pc = "SendCommand" /\ pc' # pc
          THEN IF conns = <<>> THEN ents' = ents
               ELSE /\ EnqueuedOnOne(Cardinality(WaitingCommands(ents)))
                    /\ WaitingCommands(ents') = {}
          ELSE Cardinality(WaitingCommands(ents')) >= Cardinality(WaitingCommands(ents))]_vars

\* the Commands dispatched so far by Parse.process
Dispatched == Cardinality({i \in DOMAIN log : log[i].ev = "command"})

\* the peer has sent only Commands on Connection i
OnlyCommandsSent(i) ==
    \A k \in DOMAIN conns[i].sent : conns[i].sent[k].type = "Command"

\* the engine has a Connection that is up, on which the front-end has sent
\* n Commands or more and nothing else
CommandsSent(n) ==
    /\ variant = "engine"
    /\ \E i \in Live(conns) :
          /\ ~conns[i].closed /\ ~conns[i].err
          /\ OnlyCommandsSent(i)
          /\ Len(conns[i].sent) >= n

\* n Commands are dispatched, or the Connection did not stay up, or the peer
\* sent something else, or a Command has stopped the engine
CommandsDispatched(n) ==
    \/ Dispatched >= n
    \/ pc = "exited"
    \/ \E i \in DOMAIN conns :
           conns[i].closed \/ conns[i].err \/ conns[i].dead \/ ~OnlyCommandsSent(i)

\* C32: end-to-end delivery.  Every Command the front-end creates is kept
\* until a Connection exists and then enqueued exactly once; every Command
\* sent to the engine on a Connection that stays up is eventually
\* dispatched by Parse.process, and none is dispatched twice.
C32_EndToEndDelivery ==
    /\ CommandsEnqueuedOnce
    /\ [](variant = "engine" =>
             \A i \in DOMAIN conns : IsPrefix(Surfaced, GotToSurface(conns[i])))
    /\ \A n \in 1..MaxFrames : CommandsSent(n) ~> CommandsDispatched(n)

\* the last element of a sequence that has one
Last(q) == q[Len(q)]

\* the blocking front-end waits for the Response to a Command it has sent,
\* on a connection that is up
Awaiting ==
    /\ variant = "client"
    /\ pc = "await"
    /\ ~conns[1].closed

\* C33: in the blocking front-end, send_and_await_response returns a
\* Response, never None, for every Command it sends while the connection
\* stays up, also when the Response frame arrives split over several reads:
\* the read that ends the wait returns a Response and the loop goes on to
\* the next line of input.
C33_AwaitReturnsResponse ==
    [][(Awaiting /\ pc' # pc) =>
          /\ pc' = "input"
          /\ log' = Append(log, [ev |-> "received", key |-> Last(conns[1].sent).message,
                                 args |-> <<Last(conns[1].sent).succeeded>>])]_vars

\* nothing has been received, decoded, enqueued or sent on the Connection
Fresh(c) ==
    /\ c.buf = <<>> /\ c.got = <<>>
    /\ c.out = <<>> /\ c.enq = <<>> /\ c.tx = <<>>

\* the Connections this step creates
Created == {j \in DOMAIN conns' : j > Len(conns)}

\* C34: session isolation.  A Connection starts with an empty inbound
\* buffer and an empty outbound queue, also when it is created after a
\* disconnect or reset; what is decoded on it is what its own peer has sent
\* on it, and what is transmitted on it is what was enqueued on it, so no
\* piece of a frame of an earlier Connection is decoded or sent on it.
C34_SessionIsolation ==
    /\ [][\A j \in Created : Fresh(conns'[j])]_vars
    /\ [](\A i \in DOMAIN conns :
             /\ IsPrefix(conns[i].got, conns[i].sent)
             /\ IsPrefix(conns[i].tx, conns[i].enq))

\* the cli daemon has dispatched a Command of a first client, whose
\* Connection was reset and is gone, and has accepted a second client: the
\* new Connection is untouched and its first bytes wait on the socket
C34_Witness ==
    /\ variant = "cli"
    /\ pc = "Parse"
    /\ Dispatched > 0
    /\ Len(conns) = 1
    /\ Fresh(conns[1])
    /\ conns[1].wire # <<>>

\* a duration: decimal digits followed by the unit s or m
IsDuration(a) ==
    /\ Len(a) >= 2
    /\ IsDecimal(SubSeq(a, 1, Len(a) - 1))
    /\ a[Len(a)] \in {115, 109}

\* the dispatches that called parse_record
RecordCalls == {i \in DOMAIN dispatched : dispatched[i].d.calls = <<"parse_record">>}

\* C35: the record command.  With a missing or malformed duration argument
\* it emits exactly one unsuccessful Response carrying the usage text,
\* starts no recording and leaves the daemon running; with a valid duration
\* it starts exactly one recording and emits no immediate Response.
C35_RecordCommand ==
    \A i \in RecordCalls :
        LET args == dispatched[i].command.arguments
            eff == dispatched[i].d.eff
        IN  IF args # <<>> /\ IsDuration(args[1])
            THEN eff = Effect("none", <<>>, <<>>, 1)
            ELSE eff = Effect("none", <<Response(FALSE, RECORD_USAGE)>>, <<>>, 0)

\* the dispatches that called parse_show
ShowCalls == {i \in DOMAIN dispatched : dispatched[i].d.calls = <<"parse_show">>}

\* the elements show displays
ShownElements == {ARG_OKN, ARG_IDLE, ARG_SACCADES}

\* C36: the show command emits exactly one Response per invocation.  When
\* the argument list is a single element of {okn, idle, saccades} the
\* Response has succeeded = true and exactly one UI action, that of the
\* element, is dispatched; otherwise it has succeeded = false and the usage
\* text, and no UI action is dispatched.  Nothing is raised either way.
C36_ShowCommand ==
    \A i \in ShowCalls :
        LET args == dispatched[i].command.arguments
            eff == dispatched[i].d.eff
        IN  /\ eff.exc = "none"
            /\ Len(eff.responses) = 1
            /\ IF Len(args) = 1 /\ args[1] \in ShownElements
               THEN /\ eff.responses[1].succeeded
                    /\ eff.ui = <<args[1]>>
               ELSE /\ eff.responses[1] = Response(FALSE, SHOW_USAGE)
                    /\ eff.ui = <<>>

\* show was called with two elements and answered with the usage text
C36_Witness ==
    \E i \in ShowCalls :
        /\ dispatched[i].command.arguments = <<ARG_OKN, ARG_IDLE>>
        /\ dispatched[i].d.eff.responses = <<Response(FALSE, SHOW_USAGE)>>
        /\ dispatched[i].d.eff.ui = <<>>

\* the positions of a line where a token starts: a character that is not
\* white space and follows white space or nothing
TokenStarts(line) ==
    {i \in DOMAIN line : ~IsSpace(line[i]) /\ (i = 1 \/ IsSpace(line[i - 1]))}

\* the token that starts at position i: the characters up to the next white
\* space or the end of the line
TokenAt(line, i) ==
    LET e == CHOOSE j \in i..Len(line) :
                 /\ \A m \in i..j : ~IsSpace(line[m])
                 /\ j = Len(line) \/ IsSpace(line[j + 1])
    IN  SubSeq(line, i, e)

\* the whitespace-separated tokens of a line, in order
Tokens(line) ==
    LET starts == TokenStarts(line) IN
    [k \in 1..Cardinality(starts) |->
        TokenAt(line, CHOOSE i \in starts : Cardinality({j \in starts : j < i}) = k - 1)]

\* the Command the claim gives a line that has tokens
CommandOfLine(line) == Command(Head(Tokens(line)), Tail(Tokens(line)))

\* C37: user input that is empty or only white space creates no Command and
\* nothing is sent; any other input creates exactly one Command, whose name
\* is the first whitespace-separated token and whose arguments are the
\* remaining tokens in order.  This holds of every line the blocking
\* front-end has read, and forward_user_input creates the same Command as
\* eval_user_input_as_command returns.
C37_InputToCommand ==
    /\ \A i \in DOMAIN log :
          log[i].ev = "input" =>
              IF Tokens(log[i].key) = <<>>
              THEN i = Len(log) \/ log[i + 1].ev # "sent"
              ELSE /\ i < Len(log)
                   /\ log[i + 1].ev = "sent"
                   /\ Command(log[i + 1].key, log[i + 1].args) = CommandOfLine(log[i].key)
                   /\ i + 1 = Len(log) \/ log[i + 2].ev # "sent"
    /\ \A line \in ClientLines :
          forward_user_input(line)
              = IF Tokens(line) = <<>> THEN <<>> ELSE <<Entity(CommandOfLine(line))>>

\* the line 'a', tab, 'a' has been read and sent as the Command 'a' with the
\* argument 'a'
C37_Witness ==
    /\ variant = "client"
    /\ \E i \in DOMAIN log :
          /\ log[i].ev = "input"
          /\ log[i].key = <<97, 9, 97>>
          /\ i < Len(log)
          /\ log[i + 1] = [ev |-> "sent", key |-> <<97>>, args |-> <<(<<97>>)>>]
          /\ conns[1].tx # <<>>

=========================================================================
